---- MODULE Spec2Model ----
(***************************************************************************)
(* Model of the Markdown <-> ENML bridge of mcp-evernote:                  *)
(*   - EvernoteAPI.patchNoteContent (src/src/evernote-api.ts), the patch   *)
(*     engine, with the note store it reads and writes;                    *)
(*   - markdownToENML / renderImage / registerAttachment                   *)
(*     (src/src/index.ts), the forward conversion and its per-call         *)
(*     attachment registry, and enmlToMarkdown, the reverse conversion;    *)
(*   - ensureAPI and the CallTool handler (src/src/index.ts) with          *)
(*     EvernoteOAuth.getAccessToken (src/src/oauth.ts): the connection     *)
(*     state of the server, its retry delay and the stored token file.     *)
(*                                                                         *)
(* Text is a sequence of tokens.  A token is a record [k, s, v, t, a, ti]: *)
(*   k = "ch"        one character v                                       *)
(*   k = "img"       Markdown image reference  ![alt](s:v)                 *)
(*   k = "link"      Markdown link             [label](s:v)                *)
(*   k = "en-media"  ENML <en-media hash=v type=t/>                        *)
(*   k = "a"         ENML <a href="s:v">, v = "" when the href is absent   *)
(*   k = "text"      escaped plain text emitted for an image without href  *)
(* A scheme s = "" is a scheme-less (local path) reference.                *)
(***************************************************************************)
EXTENDS Integers, Sequences, FiniteSets, Bags, TLC

VARIABLES
    \* ---- note store and one patchNoteContent call
    store,          \* the note held by noteStore: [content, resources]
    store0,         \* history: the note held before the call
    replacements,   \* the call's NoteReplacement[] argument
    pc,             \* position of the call: start, loop, update, done
    note,           \* the call's local note object
    originalResources, \* the call's copy of note.resources
    markdown,       \* the call's local markdown string
    trace,          \* markdown before the loop and after each iteration
    changes,        \* PatchNoteResult.changes built so far
    outcome,        \* none, no-match, empty, committed, threw
    retryCount,     \* updateNote's retryCount argument
    updateCalls,    \* number of noteStore.updateNote calls made
    \* ---- one markdownToENML call
    cSource,        \* the note the markdown was retrieved from (or none)
    cMarkdown,      \* the markdown argument (its references, in order)
    cExisting,      \* options.existingResources
    cPos,           \* next token marked hands to the renderer
    attachments,    \* the attachments array
    attachmentsByHash, \* the attachmentsByHash map
    cOut,           \* tokens emitted so far
    cLog,           \* per processed reference: what registerAttachment did
    cPc,            \* idle, retrieve, render, returned, built
    cResources,     \* what the caller's buildResourcesFromAttachments built
    \* ---- the server's connection to Evernote
    now,            \* Date.now(), in milliseconds
    api,            \* the EvernoteAPI instance (its serial number), 0 for null
    apiInitError,   \* "" for null, else the message of the last failure
    lastInitAttempt, \* time of the last attempt, 0 before any
    tokenFile,      \* .evernote-token.json: NoFile or [token, expires]
    calls,          \* the requests in progress: [kind, pc, n, retry]
    initCount,      \* history: calls of oauth.getAuthenticatedClient so far
    \* ---- one EvernoteOAuth.getAccessToken call
    tEnv,           \* process.env and isClaudeCode: [access, claude, oauth]
    tFile,          \* .evernote-token.json: [kind, token, accessToken, expires]
    tFile0,         \* history: the file before the call
    tPc,            \* idle, start, read, unlink, done
    tResult,        \* what the call returned or threw: [token, source, msg]
    tConsulted,     \* history: the sources the call looked at, in order
    \* ---- one evernote_update_note request
    uArgs,          \* the arguments: [forceUpdate, content, title]; content
                    \* and title tell whether the argument is given
    uPc,            \* idle, get, update, wait, reget, create, delete, done
    uRetryCount,    \* updateNote's retryCount argument
    uCalls,         \* history: calls of noteStore.updateNote
    uDelays,        \* history: the delays passed to setTimeout, in order
    uLastCode,      \* history: errorCode of the last noteStore.updateNote
                    \* failure, -1 before any
    uError,         \* stepError: [errorCode, retriesAttempted, from]
    uCreated,       \* history: createNote has returned a new note
    uDeleteCalls,   \* history: calls of deleteNote
    uResult,        \* "", updated, forced, error
    uForceFailed,   \* 'Force update also failed' was appended to the error
    \* ---- polling configuration, computed when the module is loaded
    pollEnv,        \* process.env.EVERNOTE_POLL_INTERVAL: [set, s]
    POLL_INTERVAL,  \* [nan, n]: NaN, or the number n
    cfgPc,          \* idle, load, loaded
    \* ---- polling (index.ts)
    pollInterval,   \* the timer id held by pollInterval, 0 for null
    timers,         \* the interval timers that are active
    timersCreated,  \* setInterval calls so far
    alreadyRunning, \* 'Polling already running' was logged
    autoStart,      \* the auto-start timeout: off, pending, done
    pollErrorCount,
    lastUpdateCount, \* -1 for null
    lastPollTime,   \* the logical time of the latest pollOnce
    polls,          \* the polls in flight: a bag of the awaits they wait at
    serverCount,    \* the account's updateCount on the service
    timesReported,  \* per update sequence number: notifications made
    failStreak      \* polls in a row that ended in checkForChanges' catch

patchVars == <<store, store0, replacements, pc, note, originalResources, markdown,
               trace, changes, outcome, retryCount, updateCalls>>
convVars == <<cSource, cMarkdown, cExisting, cPos, attachments, attachmentsByHash,
              cOut, cLog, cPc, cResources>>
connVars == <<now, api, apiInitError, lastInitAttempt, tokenFile, calls,
              initCount>>
tokVars == <<tEnv, tFile, tFile0, tPc, tResult, tConsulted>>
updVars == <<uArgs, uPc, uRetryCount, uCalls, uDelays, uLastCode, uError,
             uCreated, uDeleteCalls, uResult, uForceFailed>>
cfgVars == <<pollEnv, POLL_INTERVAL, cfgPc>>
pollVars == <<pollInterval, timers, timersCreated, alreadyRunning, autoStart,
              pollErrorCount, lastUpdateCount, lastPollTime, polls,
              serverCount, timesReported, failStreak>>
extVars == <<tokVars, updVars, cfgVars, pollVars>>
vars == <<patchVars, convVars, connVars, extVars>>

\* ------------------------------------------------------------------ bounds
MaxLen == 3       \* longest note body, in tokens
MaxReps == 2      \* most replacements in one patch call
MaxRes == 2       \* most resources attached to the patched note
MaxRefs == 3      \* most references in one converted markdown
MaxExisting == 2  \* most entries of options.existingResources
MaxMedia == 2     \* longest body of a stored note that is retrieved
MaxCalls == 2     \* most requests in progress at the same time
MaxInits == 4     \* most calls of getAuthenticatedClient in one run
MaxTicks == 3     \* clock ticks in one run
MaxChars == 6     \* longest value of EVERNOTE_POLL_INTERVAL, in characters
MaxPolls == 5     \* most calls of pollOnce in one run
MaxUpdates == 2   \* most changes made to the account in one run
MaxTimers == 2    \* most calls of setInterval in one run

\* ------------------------------------------------------------------ tokens
\* a token is [k, s, v, t, a, ti]: kind, URL scheme, URL rest (or the
\* character, or the hash attribute), type attribute, alt or link text, title
Ch(c) == [k |-> "ch", s |-> "", v |-> c, t |-> "", a |-> "", ti |-> ""]
ImgAlt(s, v, alt, title) ==
    [k |-> "img", s |-> s, v |-> v, t |-> "", a |-> alt, ti |-> title]
Img(s, v) == ImgAlt(s, v, "", "")
LnkText(s, v, text) ==
    [k |-> "link", s |-> s, v |-> v, t |-> "", a |-> text, ti |-> ""]
Lnk(s, v) == LnkText(s, v, "")
MediaAttrs(h, t, alt, title) ==
    [k |-> "en-media", s |-> "", v |-> h, t |-> t, a |-> alt, ti |-> title]
Media(h, t) == MediaAttrs(h, t, "", "")
AnchorText(s, v, text, title) ==
    [k |-> "a", s |-> s, v |-> v, t |-> "", a |-> text, ti |-> title]
Anchor(s, v) == AnchorText(s, v, "", "")
PlainText == [k |-> "text", s |-> "", v |-> "", t |-> "", a |-> "", ti |-> ""]

Range(f) == {f[i] : i \in DOMAIN f}
SetMin(S) == CHOOSE x \in S : \A y \in S : x <= y
SeqsUpTo(S, n) == UNION {[1..m -> S] : m \in 0..n}

\* ------------------------------------------------- JavaScript string methods
IsWhiteSpace(tok) == tok.k = "ch" /\ tok.v = " "

RECURSIVE TrimStart(_)
TrimStart(s) ==
    IF s # <<>> /\ IsWhiteSpace(Head(s)) THEN TrimStart(Tail(s)) ELSE s

RECURSIVE TrimEnd(_)
TrimEnd(s) ==
    IF s # <<>> /\ IsWhiteSpace(s[Len(s)])
    THEN TrimEnd(SubSeq(s, 1, Len(s) - 1)) ELSE s

\* String.prototype.trim
Trim(s) == TrimEnd(TrimStart(s))

MatchAt(md, find, i) ==
    /\ i + Len(find) - 1 <= Len(md)
    /\ \A j \in 1..Len(find) : md[i + j - 1] = find[j]

\* String.prototype.indexOf(find, from), 1-based; 0 when absent
RECURSIVE IndexOf(_, _, _)
IndexOf(md, find, from) ==
    IF from + Len(find) - 1 > Len(md) THEN 0
    ELSE IF MatchAt(md, find, from) THEN from
    ELSE IndexOf(md, find, from + 1)

\* markdown.match(new RegExp(escaped(find), 'g')): the scan restarts at
\* lastIndex after each match and steps one further after an empty match
RECURSIVE RegexScan(_, _, _)
RegexScan(md, find, i) ==
    LET p == IndexOf(md, find, i)
    IN IF p = 0 THEN 0
       ELSE 1 + RegexScan(md, find, IF find = <<>> THEN p + 1 ELSE p + Len(find))

RegexMatchCount(md, find) == RegexScan(md, find, 1)

\* String.prototype.split(sep)
RECURSIVE SplitFrom(_, _, _)
SplitFrom(md, sep, i) ==
    LET p == IndexOf(md, sep, i)
    IN IF p = 0 THEN <<SubSeq(md, i, Len(md))>>
       ELSE <<SubSeq(md, i, p - 1)>> \o SplitFrom(md, sep, p + Len(sep))

Split(md, sep) ==
    IF sep = <<>> THEN [i \in 1..Len(md) |-> <<md[i]>>]
    ELSE SplitFrom(md, sep, 1)

\* Array.prototype.join(rep)
RECURSIVE Join(_, _)
Join(parts, rep) ==
    IF parts = <<>> THEN <<>>
    ELSE IF Len(parts) = 1 THEN parts[1]
    ELSE parts[1] \o rep \o Join(Tail(parts), rep)

\* the characters U+0060 and U+0027
Backtick == Ch("backtick")
Apostrophe == Ch("apostrophe")

\* GetSubstitution for a string pattern: $$ is a dollar, $& the match, $
\* with a backtick the text before the match and $ with an apostrophe the
\* text after it; without capture groups $1 and every other sequence stay
\* as written
RECURSIVE GetSubstitution(_, _, _, _)
GetSubstitution(matched, rep, before, after) ==
    LET rest == SubSeq(rep, 3, Len(rep))
        dollar == Len(rep) >= 2 /\ rep[1] = Ch("$")
    IN IF rep = <<>> THEN <<>>
       ELSE IF dollar /\ rep[2] = Ch("$")
       THEN <<Ch("$")>> \o GetSubstitution(matched, rest, before, after)
       ELSE IF dollar /\ rep[2] = Ch("&")
       THEN matched \o GetSubstitution(matched, rest, before, after)
       ELSE IF dollar /\ rep[2] = Backtick
       THEN before \o GetSubstitution(matched, rest, before, after)
       ELSE IF dollar /\ rep[2] = Apostrophe
       THEN after \o GetSubstitution(matched, rest, before, after)
       ELSE <<rep[1]>> \o GetSubstitution(matched, Tail(rep), before, after)

\* String.prototype.replace(find, rep) with a string pattern
StringReplace(md, find, rep) ==
    LET p == IndexOf(md, find, 1)
        before == SubSeq(md, 1, p - 1)
        after == SubSeq(md, p + Len(find), Len(md))
    IN IF p = 0 THEN md
       ELSE before \o GetSubstitution(find, rep, before, after) \o after

\* ------------------------------------------------------- digests and files
\* createHash('md5').update(data).digest().toString('hex') on the model's
\* byte buffers 1, 2, 3: injective, lowercase hex
Md5Hex(bytes) ==
    CASE bytes = 1 -> "aa" [] bytes = 2 -> "bb" [] OTHER -> "cc"

HexDigests == {"aa", "bb", "cc", "AA", "BB"}

\* String.prototype.toLowerCase on a hex digest
ToLowerCase(h) ==
    CASE h = "AA" -> "aa" [] h = "BB" -> "bb" [] OTHER -> h

\* the local file system the conversion reads: x.png and y.gif hold the same
\* bytes, gone.png does not exist, lock.png exists but cannot be read
Paths == {"x.png", "y.gif", "z.pdf", "gone.png", "lock.png"}

FileExists(path) == path \in {"x.png", "y.gif", "z.pdf", "lock.png"}
FileReadable(path) == path \in {"x.png", "y.gif", "z.pdf"}
FileBytes(path) == IF path = "z.pdf" THEN 2 ELSE 1

\* lookupMimeType(path) || 'application/octet-stream'
LookupMimeType(path) ==
    CASE path \in {"x.png", "gone.png", "lock.png"} -> "image/png"
      [] path = "y.gif" -> "image/gif"
      [] path = "z.pdf" -> "application/pdf"
      [] OTHER -> "application/octet-stream"

\* ---------------------------------------------------------------- resources
\* an Evernote Resource: bodyHash "" and body 0 stand for absent fields;
\* id 0 is a Resource built by this program (no guid yet)
NoResource == [id |-> -1, bodyHash |-> "", body |-> 0, mime |-> "", fileName |-> ""]

\* the hash normalizeExistingResources derives for one resource, "" for none
ResourceHashHex(r) ==
    IF r.bodyHash # "" THEN r.bodyHash
    ELSE IF r.body # 0 THEN Md5Hex(r.body)
    ELSE ""

NormalizeExistingResources(resources) ==
    LET kept == SelectSeq(resources, LAMBDA r : ResourceHashHex(r) # "")
    IN [i \in 1..Len(kept) |->
           [hashHex |-> ResourceHashHex(kept[i]),
            mimeType |-> kept[i].mime,
            filename |-> kept[i].fileName,
            resource |-> kept[i]]]

\* Map keyed by lowercased hashHex; a later entry overwrites an earlier one
BuildExistingResourceMap(resources) ==
    LET idx == {i \in DOMAIN resources : resources[i].hashHex # ""}
        keys == {ToLowerCase(resources[i].hashHex) : i \in idx}
        Last(h) == CHOOSE i \in idx :
                      /\ ToLowerCase(resources[i].hashHex) = h
                      /\ \A j \in idx :
                            ToLowerCase(resources[j].hashHex) = h => j <= i
    IN [h \in keys |-> resources[Last(h)]]

\* ------------------------------------------------------ attachment registry
EmptyRegistry == [attachments |-> <<>>, byHash |-> <<>>]

NoAttachment ==
    [hashHex |-> "", mimeType |-> "", filename |-> "", data |-> 0,
     resource |-> NoResource, isNew |-> FALSE]

RegisterNoDedup(candidate, reg) ==
    [reg |-> [attachments |-> Append(reg.attachments, candidate),
              byHash |-> (candidate.hashHex :> candidate) @@ reg.byHash],
     ret |-> candidate]

RegisterLastWins(candidate, reg) ==
    IF candidate.hashHex \in DOMAIN reg.byHash
    THEN [reg |-> [attachments |->
                       [i \in DOMAIN reg.attachments |->
                           IF reg.attachments[i].hashHex = candidate.hashHex
                           THEN candidate ELSE reg.attachments[i]],
                   byHash |-> (candidate.hashHex :> candidate) @@ reg.byHash],
          ret |-> candidate]
    ELSE [reg |-> [attachments |-> Append(reg.attachments, candidate),
                   byHash |-> (candidate.hashHex :> candidate) @@ reg.byHash],
          ret |-> candidate]

RegisterPrepend(candidate, reg) ==
    IF candidate.hashHex \in DOMAIN reg.byHash
    THEN [reg |-> reg, ret |-> reg.byHash[candidate.hashHex]]
    ELSE [reg |-> [attachments |-> <<candidate>> \o reg.attachments,
                   byHash |-> (candidate.hashHex :> candidate) @@ reg.byHash],
          ret |-> candidate]

\* registerAttachment(candidate, attachments, attachmentsByHash)
RegisterAttachment(candidate, reg) ==
    IF candidate.hashHex \in DOMAIN reg.byHash
    THEN [reg |-> reg, ret |-> reg.byHash[candidate.hashHex]]
    ELSE [reg |-> [attachments |-> Append(reg.attachments, candidate),
                   byHash |-> (candidate.hashHex :> candidate) @@ reg.byHash],
          ret |-> candidate]

ResolveIgnoringScheme(tok) ==
    IF tok.v \in Paths /\ FileExists(tok.v) THEN tok.v ELSE ""

\* resolveLocalPath(href): the path to read, "" for null
ResolveLocalPath(tok) ==
    IF tok.s = "file" THEN tok.v
    ELSE IF tok.s # "" THEN ""
    ELSE IF tok.v \in Paths /\ FileExists(tok.v) THEN tok.v
    ELSE ""

RefKindNoCatch(tok, existingMap) ==
    IF tok.s = "" /\ tok.v = "" THEN "empty"
    ELSE IF tok.s = "evernote-resource" /\ tok.v \in HexDigests
    THEN IF ToLowerCase(tok.v) \in DOMAIN existingMap
         THEN "existing" ELSE "unknown"
    ELSE IF ResolveLocalPath(tok) = "" THEN "remote"
    ELSE "local"

\* which branch of renderImage a reference takes
RefKind(tok, existingMap) ==
    IF tok.s = "" /\ tok.v = "" THEN "empty"
    ELSE IF tok.s = "evernote-resource" /\ tok.v \in HexDigests
    THEN IF ToLowerCase(tok.v) \in DOMAIN existingMap
         THEN "existing" ELSE "unknown"
    ELSE IF ResolveLocalPath(tok) = "" THEN "remote"
    ELSE IF FileReadable(ResolveLocalPath(tok)) THEN "local"
    ELSE "unreadable"

\* the candidate renderImage builds for a resource:<hex> reference
ExistingCandidate(tok, existingMap) ==
    LET hashHex == ToLowerCase(tok.v)
        existing == existingMap[hashHex]
    IN [hashHex |-> hashHex,
        mimeType |-> IF existing.mimeType # "" THEN existing.mimeType
                     ELSE "application/octet-stream",
        filename |-> existing.filename,
        data |-> 0,
        resource |-> existing.resource,
        isNew |-> FALSE]

\* the candidate renderImage builds for a readable local file
LocalCandidate(tok) ==
    LET path == ResolveLocalPath(tok)
    IN [hashHex |-> Md5Hex(FileBytes(path)),
        mimeType |-> LookupMimeType(path),
        filename |-> path,
        data |-> FileBytes(path),
        resource |-> NoResource,
        isNew |-> TRUE]

\* fallbackLink(url, altText, title), altText being text || url
FallbackLink(tok) ==
    AnchorText(tok.s, tok.v, IF tok.a # "" THEN tok.a ELSE tok.v, tok.ti)

\* renderImage: the registry afterwards, the element emitted, and a log
\* entry [kind, candidate, ret, read] of the registration it made (if any)
\* and of the path it passed to readFileSync ("" when it read no file)
RenderImage(tok, existingMap, reg) ==
    LET kind == RefKind(tok, existingMap)
    IN CASE kind = "empty" ->
              [reg |-> reg, out |-> PlainText,
               log |-> [kind |-> kind, tok |-> tok, candidate |-> NoAttachment,
                        ret |-> NoAttachment, read |-> ""]]
         [] kind = "existing" ->
              LET r == RegisterAttachment(ExistingCandidate(tok, existingMap), reg)
              IN [reg |-> r.reg,
                  out |-> MediaAttrs(ToLowerCase(tok.v), r.ret.mimeType,
                                     tok.a, tok.ti),
                  log |-> [kind |-> kind, tok |-> tok,
                           candidate |-> ExistingCandidate(tok, existingMap),
                           ret |-> r.ret, read |-> ""]]
         [] kind = "local" ->
              LET r == RegisterAttachment(LocalCandidate(tok), reg)
              IN [reg |-> r.reg,
                  out |-> MediaAttrs(r.ret.hashHex, r.ret.mimeType,
                                     tok.a, tok.ti),
                  log |-> [kind |-> kind, tok |-> tok,
                           candidate |-> LocalCandidate(tok), ret |-> r.ret,
                           read |-> ResolveLocalPath(tok)]]
         [] OTHER ->
              [reg |-> reg, out |-> FallbackLink(tok),
               log |-> [kind |-> kind, tok |-> tok, candidate |-> NoAttachment,
                        ret |-> NoAttachment,
                        read |-> IF kind = "unreadable"
                                 THEN ResolveLocalPath(tok) ELSE ""]]

\* what marked's renderer emits for one token
RenderToken(tok, existingMap, reg) ==
    IF tok.k = "img" THEN RenderImage(tok, existingMap, reg)
    ELSE [reg |-> reg,
          out |-> IF tok.k = "link"
                  THEN AnchorText(tok.s, tok.v, tok.a, tok.ti) ELSE tok,
          log |-> [kind |-> "none", tok |-> tok, candidate |-> NoAttachment,
                   ret |-> NoAttachment, read |-> ""]]

\* sanitizeHtml: an href whose scheme is not allowed is dropped
AllowedSchemes == {"http", "https", "mailto", ""}

SanitizeToken(tok) ==
    IF tok.k = "a" /\ tok.s \notin AllowedSchemes
    THEN AnchorText("", "", tok.a, tok.ti) ELSE tok

SanitizeHtml(html) == [i \in DOMAIN html |-> SanitizeToken(html[i])]

RECURSIVE ParseFrom(_, _, _, _, _)
ParseFrom(md, i, existingMap, reg, out) ==
    IF i > Len(md) THEN [reg |-> reg, out |-> out]
    ELSE LET r == RenderToken(md[i], existingMap, reg)
         IN ParseFrom(md, i + 1, existingMap, r.reg, Append(out, r.out))

\* markdownToENML(markdown, {existingResources}); marked drops the blank
\* space around a block, modelled by Trim
MarkdownToENML(md, existingResources) ==
    LET parsed == ParseFrom(Trim(md), 1,
                            BuildExistingResourceMap(existingResources),
                            EmptyRegistry, <<>>)
    IN [enml |-> SanitizeHtml(parsed.out),
        attachments |-> parsed.reg.attachments]

\* type.toLowerCase().startsWith('image/')
IsImageType(type) == type \in {"image/png", "image/gif"}

MediaAltOnly(tok, resourceMap) ==
    LET hash == ToLowerCase(tok.v)
        type == IF tok.t # "" THEN tok.t
                ELSE IF hash \in DOMAIN resourceMap /\ resourceMap[hash].mimeType # ""
                THEN resourceMap[hash].mimeType
                ELSE "application/octet-stream"
    IN IF IsImageType(type)
       THEN ImgAlt("evernote-resource", hash, tok.a, "")
       ELSE LnkText("evernote-resource", hash, tok.ti)

MediaDropUnknown(tok, resourceMap) ==
    LET hash == ToLowerCase(tok.v)
    IN IF hash \notin DOMAIN resourceMap THEN Ch(" ")
       ELSE IF IsImageType(IF tok.t # "" THEN tok.t ELSE resourceMap[hash].mimeType)
       THEN ImgAlt("evernote-resource", hash, "x", "")
       ELSE LnkText("evernote-resource", hash, "x")

\* the <en-media> callback of enmlToMarkdown
MediaToMarkdown(tok, resourceMap) ==
    LET hash == ToLowerCase(tok.v)
        type == IF tok.t # "" THEN tok.t
                ELSE IF hash \in DOMAIN resourceMap /\ resourceMap[hash].mimeType # ""
                THEN resourceMap[hash].mimeType
                ELSE "application/octet-stream"
        existing == IF hash \in DOMAIN resourceMap THEN resourceMap[hash]
                    ELSE [hashHex |-> hash, mimeType |-> "", filename |-> "",
                          resource |-> NoResource]
        displayName == IF tok.ti # "" THEN tok.ti
                       ELSE IF existing.filename # "" THEN existing.filename
                       ELSE IF existing.mimeType # "" THEN existing.mimeType
                       ELSE hash
        alt == IF tok.a # "" THEN tok.a ELSE displayName
    IN IF IsImageType(type)
       THEN ImgAlt("evernote-resource", hash, alt, "")
       ELSE LnkText("evernote-resource", hash, displayName)

\* enmlToMarkdown(enml, {resources}): turndown output, trimmed
EnmlToMarkdown(enml, resources) ==
    LET resourceMap == BuildExistingResourceMap(resources)
    IN Trim([i \in DOMAIN enml |->
                 CASE enml[i].k = "en-media" -> MediaToMarkdown(enml[i], resourceMap)
                   [] enml[i].k = "a" -> LnkText(enml[i].s, enml[i].v, enml[i].a)
                   [] OTHER -> enml[i]])

\* buildResourcesFromAttachments(attachments, EvernoteModule)
RECURSIVE BuildFrom(_, _, _)
BuildFrom(atts, i, seen) ==
    IF i > Len(atts) THEN <<>>
    ELSE LET a == atts[i]
         IN IF a.hashHex \in seen THEN BuildFrom(atts, i + 1, seen)
            ELSE IF a.resource # NoResource
            THEN <<a.resource>> \o BuildFrom(atts, i + 1, seen \cup {a.hashHex})
            ELSE IF a.data = 0 THEN BuildFrom(atts, i + 1, seen \cup {a.hashHex})
            ELSE <<[id |-> 0, bodyHash |-> a.hashHex, body |-> a.data,
                    mime |-> a.mimeType, fileName |-> a.filename]>>
                 \o BuildFrom(atts, i + 1, seen \cup {a.hashHex})

BuildResourcesFromAttachments(atts) == BuildFrom(atts, 1, {})

\* ------------------------------------------------------------ patch engine
maxRetries == 3

\* const { find, replace, replaceAll = true } = replacement, and one pass of
\* the loop body: the new markdown and the record pushed onto changes
ApplyReplacement(md, r) ==
    LET occurrences == RegexMatchCount(md, r.find)
        replaceAll == IF r.replaceAll = "omitted" THEN TRUE
                      ELSE r.replaceAll = "true"
    IN IF occurrences > 0
       THEN IF replaceAll
            THEN [markdown |-> Join(Split(md, r.find), r.replace),
                  change |-> [find |-> r.find, occurrences |-> occurrences,
                              replaced |-> occurrences]]
            ELSE [markdown |-> StringReplace(md, r.find, r.replace),
                  change |-> [find |-> r.find, occurrences |-> occurrences,
                              replaced |-> 1]]
       ELSE [markdown |-> md,
             change |-> [find |-> r.find, occurrences |-> 0, replaced |-> 0]]

ReverseIndex(done, n) == n - done

\* for (const replacement of replacements): the index of the next one
ReplacementIndex(done, n) == done + 1

LoopDoneAfterFirst(done, n) == done >= 1 \/ n = 0

\* the for-of loop has run out of replacements
LoopDone(done, n) == done = n

RECURSIVE SumReplaced(_)
SumReplaced(cs) ==
    IF cs = <<>> THEN 0 ELSE Head(cs).replaced + SumReplaced(Tail(cs))

TotalReplacedPlusOne(cs) == SumReplaced(cs) + 1

\* changes.reduce((sum, c) => sum + c.replaced, 0)
TotalReplaced(cs) == SumReplaced(cs)

IsEmptyNoTrim(md) == md = <<>>

\* !markdown.trim()
IsEmptyResult(md) == Trim(md) = <<>>

\* applyMarkdownToNote(note, markdown); resources <<>> is a deleted
\* (undefined) note.resources
ApplyMarkdownToNote(n, md) ==
    LET conversion == MarkdownToENML(md, NormalizeExistingResources(n.resources))
    IN [content |-> conversion.enml,
        resources |-> BuildResourcesFromAttachments(conversion.attachments)]

\* the "Restore original resources" block of patchNoteContent
MergeOriginalResources(noteResources, originals) ==
    IF originals = <<>> THEN noteResources
    ELSE LET existingHashes ==
                 {noteResources[i].bodyHash : i \in DOMAIN noteResources} \ {""}
             pushed == SelectSeq(originals,
                           LAMBDA r : r.bodyHash # "" /\ r.bodyHash \notin existingHashes)
             merged == noteResources \o pushed
         IN IF merged = <<>> THEN originals ELSE merged

\* ------------------------------------------------------ inputs of the patch
RA == [id |-> 1, bodyHash |-> "aa", body |-> 1, mime |-> "image/png",
       fileName |-> "f.png"]
RB == [id |-> 2, bodyHash |-> "bb", body |-> 2, mime |-> "application/pdf",
       fileName |-> ""]
RN == [id |-> 3, bodyHash |-> "", body |-> 0, mime |-> "image/png",
       fileName |-> ""]
ResourceCatalog == {RA, RB, RN}

ResourceLists ==
    {rs \in SeqsUpTo(ResourceCatalog, MaxRes) :
        \A i, j \in DOMAIN rs : i # j => rs[i] # rs[j]}

Replacement(f, r, all) == [find |-> f, replace |-> r, replaceAll |-> all]

\* plain-text notes, patched with up to MaxReps replacements whose
\* replaceAll is left out or false
TextReplacements ==
    {Replacement(f, r, all) :
        f \in {<<>>, <<Ch("a")>>, <<Ch("a"), Ch("a")>>},
        r \in {<<>>, <<Ch("a"), Ch("a")>>},
        all \in {"omitted", "false"}}

TextInputs ==
    {[content |-> c, resources |-> <<>>, replacements |-> rs] :
        c \in SeqsUpTo({Ch("a"), Ch(" ")}, MaxLen),
        rs \in SeqsUpTo(TextReplacements, MaxReps)}

\* notes with attachments, patched with one replacement (replaceAll true)
\* that edits text, removes an embedded image or adds an image from a local
\* file
ResourceReplacements ==
    {Replacement(f, r, "true") :
        f \in {<<Ch("a")>>, <<ImgAlt("evernote-resource", "aa", "f.png", "")>>},
        r \in {<<>>, <<Ch("b")>>, <<Img("", "x.png")>>, <<Img("", "z.pdf")>>}}

ResourceInputs ==
    {[content |-> c, resources |-> res, replacements |-> <<r>>] :
        c \in SeqsUpTo({Ch("a"), Media("aa", "image/png")}, MaxLen),
        res \in ResourceLists,
        r \in ResourceReplacements}

\* one replacement of the first occurrence only whose replace holds a
\* dollar sign
DollarReplacements ==
    {Replacement(<<Ch("a")>>, r, "false") :
        r \in {<<Ch("$"), Ch("&")>>, <<Ch("$"), Ch("$")>>,
                <<Ch("$"), Ch("1")>>, <<Ch("$"), Apostrophe>>,
                <<Ch("$"), Backtick>>, <<Ch("b"), Ch("$")>>}}

DollarInputs ==
    {[content |-> c, resources |-> <<>>, replacements |-> <<r>>] :
        c \in SeqsUpTo({Ch("a"), Ch(" ")}, MaxLen),
        r \in DollarReplacements}

PatchInputs == TextInputs \cup ResourceInputs \cup DollarInputs

NoNote == [content |-> <<>>, resources |-> <<>>]

\* --------------------------------------------------------------- connection
INIT_RETRY_DELAY == 30000

\* the clock advances in ticks of fifteen seconds from T0
TickMs == 15000
T0 == 30000
MaxTime == T0 + MaxTicks * TickMs

NoFile == [token |-> FALSE, expires |-> -1]

\* a token file: expires = 0 stands for a token without expires
TokenFile(expires) == [token |-> TRUE, expires |-> expires]

\* loadToken followed by validateToken, both reading Date.now() = t:
\* "none" when loadToken returns null, "invalid" when validateToken returns
\* false, "ok" when the token is returned
ReadToken(file, t) ==
    IF file = NoFile \/ ~file.token THEN "none"
    ELSE IF file.expires # 0 /\ file.expires < t THEN "none"
    ELSE IF file.expires # 0 /\ file.expires - t <= 0 THEN "invalid"
    ELSE "ok"

\* ensureAPI as it was before the retry delay: a failed initialization is
\* never attempted again
EnsureAPIFailedForever(forceReinit, t) ==
    LET a == IF forceReinit THEN 0 ELSE api
        e == IF forceReinit THEN "" ELSE apiInitError
        l == IF forceReinit THEN 0 ELSE lastInitAttempt
    IN IF a # 0
       THEN [api |-> a, err |-> e, last |-> l, outcome |-> "have",
             retry |-> FALSE]
       ELSE IF e # ""
       THEN [api |-> a, err |-> e, last |-> l, outcome |-> "cooldown",
             retry |-> FALSE]
       ELSE [api |-> a, err |-> e, last |-> t, outcome |-> "attempt",
             retry |-> FALSE]

\* the synchronous part of ensureAPI(forceReinit) at time t: the state it
\* leaves and whether it returns api ("have"), throws the retry-delay error
\* ("cooldown") or goes on to call getAuthenticatedClient ("attempt");
\* retry tells that it took the "Enough time has passed" branch
EnsureAPI(forceReinit, t) ==
    LET a == IF forceReinit THEN 0 ELSE api
        e == IF forceReinit THEN "" ELSE apiInitError
        l == IF forceReinit THEN 0 ELSE lastInitAttempt
    IN IF a # 0
       THEN [api |-> a, err |-> e, last |-> l, outcome |-> "have",
             retry |-> FALSE]
       ELSE IF e # "" /\ l > 0 /\ t - l < INIT_RETRY_DELAY
       THEN [api |-> a, err |-> e, last |-> l, outcome |-> "cooldown",
             retry |-> FALSE]
       ELSE [api |-> a,
             err |-> IF e # "" /\ l > 0 THEN "" ELSE e,
             last |-> t, outcome |-> "attempt",
             retry |-> (e # "" /\ l > 0)]

\* a request in progress: kind is tool, health, reconnect or revoke; pc is
\* the I/O it waits for ("recover" for the attempt of the handler's
\* automatic recovery); n is the serial number of its pending
\* initialization attempt; retry tells that its ensureAPI() retried after
\* the delay
IdleCall == [kind |-> "", pc |-> "idle", n |-> 0, retry |-> FALSE]

ConnIdle ==
    /\ now = T0
    /\ api = 0
    /\ apiInitError = ""
    /\ lastInitAttempt = 0
    /\ tokenFile = NoFile
    /\ calls = [c \in 1..MaxCalls |-> IdleCall]
    /\ initCount = 0

\* ------------------------------------------------------------ token sources
\* a token file that parses: token and accessToken are "null" when the field
\* is absent, expires is 0 when it is absent
TokenRecord(token, accessToken, expires) ==
    [kind |-> "json", token |-> token, accessToken |-> accessToken,
     expires |-> expires]

\* no token file (ENOENT), and a file that JSON.parse rejects
MissingFile ==
    [kind |-> "none", token |-> "null", accessToken |-> "null", expires |-> 0]
GarbageFile ==
    [kind |-> "garbage", token |-> "null", accessToken |-> "null", expires |-> 0]

NoTokens == [token |-> "", expires |-> 0]

\* loadToken at time t: the tokens object, or NoTokens for null
LoadToken(file, t) ==
    IF file.kind # "json" THEN NoTokens
    ELSE LET token == IF file.token # "null" THEN file.token
                      ELSE file.accessToken
         IN IF token \in {"", "null"} THEN NoTokens
            ELSE IF file.expires # 0 /\ file.expires < t THEN NoTokens
            ELSE [token |-> token, expires |-> file.expires]

\* validateToken at time t
ValidateToken(tokens, t) ==
    IF tokens.token = "" THEN FALSE
    ELSE IF tokens.expires # 0 /\ tokens.expires - t <= 0 THEN FALSE
    ELSE TRUE

\* the source getAccessToken takes under Claude Code or not, whatever
\* isClaudeCode says
TokenSourceAnyHost(env) ==
    IF env.access # "" THEN "env"
    ELSE IF env.oauth # "" THEN "oauth"
    ELSE "file"

\* the branch getAccessToken takes: the first source that is set
TokenSource(env) ==
    IF env.access # "" THEN "env"
    ELSE IF env.claude /\ env.oauth # "" THEN "oauth"
    ELSE "file"

\* what getAccessToken has looked at when it takes that branch
Consulted(env) ==
    IF env.access # "" THEN <<"env">>
    ELSE IF ~env.claude THEN <<"env", "file">>
    ELSE IF env.oauth # "" THEN <<"env", "oauth">>
    ELSE <<"env", "oauth", "file">>

AuthRequiredMessages ==
    {"Authentication required. Use /mcp command in Claude Code to authenticate.",
     "Authentication required. Please run \"npm run auth\" first."}

NoTokenResult == [token |-> "", source |-> "", msg |-> ""]

TokIdle ==
    /\ tEnv = [access |-> "", claude |-> FALSE, oauth |-> ""]
    /\ tFile = MissingFile
    /\ tFile0 = MissingFile
    /\ tPc = "idle"
    /\ tResult = NoTokenResult
    /\ tConsulted = <<>>

\* ------------------------------------------------------------- update note
baseDelay == 2000

\* a delay that grows by baseDelay with every retry
LinearDelay(k) == baseDelay * (k + 1)

\* setTimeout delay before the retry that follows the failure of the call
\* made with retryCount = k
RetryDelay(k) == baseDelay * 2^k

\* errorCode of a rejection: 19, another code, or 0 for an error without one
ErrorCodes == {19, 3, 0}

NoError == [errorCode |-> -1, retriesAttempted |-> -1, from |-> ""]

UpdIdle ==
    /\ uArgs = [forceUpdate |-> FALSE, content |-> FALSE, title |-> FALSE]
    /\ uPc = "idle"
    /\ uRetryCount = 0
    /\ uCalls = 0
    /\ uDelays = <<>>
    /\ uLastCode = -1
    /\ uError = NoError
    /\ uCreated = FALSE
    /\ uDeleteCalls = 0
    /\ uResult = ""
    /\ uForceFailed = FALSE

\* ---------------------------------------------------- polling configuration
MIN_POLL_INTERVAL == 15 * 60 * 1000
DEFAULT_POLL_INTERVAL == 60 * 60 * 1000

Digits == <<"0", "1", "2", "3", "4", "5", "6", "7", "8", "9">>

IsDigit(c) == \E d \in DOMAIN Digits : Digits[d] = c

DigitValue(c) == (CHOOSE d \in DOMAIN Digits : Digits[d] = c) - 1

\* a number, or NaN
Num(n) == [nan |-> FALSE, n |-> n]
NaN == [nan |-> TRUE, n |-> 0]

\* String(n) for n >= 0
RECURSIVE NumberToString(_)
NumberToString(n) ==
    IF n < 10 THEN <<Digits[n + 1]>>
    ELSE Append(NumberToString(n \div 10), Digits[(n % 10) + 1])

\* the digits of s from position i on, up to the first other character
RECURSIVE ParseDigits(_, _, _)
ParseDigits(s, i, acc) ==
    IF i > Len(s) \/ ~IsDigit(s[i]) THEN acc
    ELSE ParseDigits(s, i + 1, acc * 10 + DigitValue(s[i]))

\* parseInt(s, 10): an optional sign, then digits; NaN without a digit
ParseInt(s) ==
    LET neg == s # <<>> /\ s[1] = "-"
        from == IF s # <<>> /\ s[1] \in {"-", "+"} THEN 2 ELSE 1
    IN IF from > Len(s) \/ ~IsDigit(s[from]) THEN NaN
       ELSE IF neg THEN Num(0 - ParseDigits(s, from, 0))
       ELSE Num(ParseDigits(s, from, 0))

\* Math.max(a, b): NaN when an argument is NaN
MathMax(a, b) ==
    IF a.nan \/ b.nan THEN NaN
    ELSE IF a.n >= b.n THEN a ELSE b

\* process.env.EVERNOTE_POLL_INTERVAL || String(DEFAULT_POLL_INTERVAL)
IntervalText(env) ==
    IF env.set /\ env.s # <<>> THEN env.s
    ELSE NumberToString(DEFAULT_POLL_INTERVAL)

PollInterval(env) ==
    MathMax(Num(MIN_POLL_INTERVAL), ParseInt(IntervalText(env)))

Unset == [set |-> FALSE, s |-> <<>>]

CfgIdle ==
    /\ pollEnv = Unset
    /\ POLL_INTERVAL = Num(DEFAULT_POLL_INTERVAL)
    /\ cfgPc = "idle"

\* ------------------------------------------------------------------ polling
\* the account's updateCount when the server starts
BaseCount == 1

Counts == BaseCount..(BaseCount + MaxUpdates)

\* where a poll in flight waits: await ensureAPI(), await getSyncState(),
\* or await getSyncChunk(from, 100, false) after it read updateCount cur
AtEnsure == [pc |-> "ensure", from |-> 0, cur |-> 0]
AtSync == [pc |-> "sync", from |-> 0, cur |-> 0]
AtChunk(from, cur) == [pc |-> "chunk", from |-> from, cur |-> cur]

PollStates ==
    {AtEnsure, AtSync} \cup
    {AtChunk(f, c) : f \in Counts, c \in Counts}

\* the polls in flight are a bag of the places where they wait
NoPolls == EmptyBag

AddPoll(b, s) == b (+) SetToBag({s})
RemovePoll(b, s) == b (-) SetToBag({s})
MovePoll(b, s, t) == AddPoll(RemovePoll(b, s), t)

NothingReported == [u \in Counts |-> 0]

PollIdle ==
    /\ pollInterval = 0
    /\ timers = {}
    /\ timersCreated = 0
    /\ alreadyRunning = FALSE
    /\ autoStart = "off"
    /\ pollErrorCount = 0
    /\ lastUpdateCount = -1
    /\ lastPollTime = 0
    /\ polls = NoPolls
    /\ serverCount = BaseCount
    /\ timesReported = NothingReported
    /\ failStreak = 0

ExtIdle ==
    /\ TokIdle
    /\ UpdIdle
    /\ CfgIdle
    /\ PollIdle

\* ----------------------------------------------------------------- actions
ConvIdle ==
    /\ cSource = NoNote
    /\ cMarkdown = <<>>
    /\ cExisting = <<>>
    /\ cPos = 1
    /\ attachments = <<>>
    /\ attachmentsByHash = <<>>
    /\ cOut = <<>>
    /\ cLog = <<>>
    /\ cPc = "idle"
    /\ cResources = <<>>

PatchIdle ==
    /\ store = NoNote
    /\ store0 = NoNote
    /\ replacements = <<>>
    /\ pc = "idle"
    /\ note = NoNote
    /\ originalResources = <<>>
    /\ markdown = <<>>
    /\ trace = <<>>
    /\ changes = <<>>
    /\ outcome = "none"
    /\ retryCount = 0
    /\ updateCalls = 0

Init ==
    /\ \E in \in PatchInputs :
          /\ store = [content |-> in.content, resources |-> in.resources]
          /\ store0 = store
          /\ replacements = in.replacements
    /\ pc = "start"
    /\ note = NoNote
    /\ originalResources = <<>>
    /\ markdown = <<>>
    /\ trace = <<>>
    /\ changes = <<>>
    /\ outcome = "none"
    /\ retryCount = 0
    /\ updateCalls = 0
    /\ ConvIdle
    /\ ConnIdle
    /\ ExtIdle

\* const note = await this.getNote(guid, true, true), then the synchronous
\* code up to the loop
PatchFetch ==
    /\ pc = "start"
    /\ note' = store
    /\ originalResources' = store.resources
    /\ markdown' = EnmlToMarkdown(store.content,
                                  NormalizeExistingResources(store.resources))
    /\ trace' = <<markdown'>>
    /\ pc' = "loop"
    /\ UNCHANGED <<store, store0, replacements, changes, outcome, retryCount, updateCalls>>
    /\ UNCHANGED <<convVars, connVars, extVars>>

\* getNote rejects: the call rejects with it
PatchFetchFail ==
    /\ pc = "start"
    /\ outcome' = "threw"
    /\ pc' = "done"
    /\ UNCHANGED <<store, store0, replacements, note, originalResources, markdown, trace,
                   changes, retryCount, updateCalls>>
    /\ UNCHANGED <<convVars, connVars, extVars>>

\* one iteration of the replacement loop
PatchReplace ==
    /\ pc = "loop"
    /\ ~LoopDone(Len(changes), Len(replacements))
    /\ LET r == ApplyReplacement(markdown,
                   replacements[ReplacementIndex(Len(changes), Len(replacements))])
       IN /\ markdown' = r.markdown
          /\ changes' = Append(changes, r.change)
          /\ trace' = Append(trace, r.markdown)
    /\ UNCHANGED <<store, store0, replacements, pc, note, originalResources, outcome,
                   retryCount, updateCalls>>
    /\ UNCHANGED <<convVars, connVars, extVars>>

\* totalReplaced === 0: return the no-match result
PatchNoMatch ==
    /\ pc = "loop"
    /\ LoopDone(Len(changes), Len(replacements))
    /\ TotalReplaced(changes) = 0
    /\ outcome' = "no-match"
    /\ pc' = "done"
    /\ UNCHANGED <<store, store0, replacements, note, originalResources, markdown, trace,
                   changes, retryCount, updateCalls>>
    /\ UNCHANGED <<convVars, connVars, extVars>>

\* !trimmedMarkdown: return the empty-content result
PatchEmpty ==
    /\ pc = "loop"
    /\ LoopDone(Len(changes), Len(replacements))
    /\ TotalReplaced(changes) # 0
    /\ IsEmptyResult(markdown)
    /\ outcome' = "empty"
    /\ pc' = "done"
    /\ UNCHANGED <<store, store0, replacements, note, originalResources, markdown, trace,
                   changes, retryCount, updateCalls>>
    /\ UNCHANGED <<convVars, connVars, extVars>>

\* applyMarkdownToNote, the resource merge, and the call of this.updateNote
PatchApply ==
    /\ pc = "loop"
    /\ LoopDone(Len(changes), Len(replacements))
    /\ TotalReplaced(changes) # 0
    /\ ~IsEmptyResult(markdown)
    /\ LET applied == ApplyMarkdownToNote(note, markdown)
       IN note' = [content |-> applied.content,
                   resources |-> MergeOriginalResources(applied.resources,
                                                        originalResources)]
    /\ retryCount' = 0
    /\ pc' = "update"
    /\ UNCHANGED <<store, store0, replacements, originalResources, markdown, trace,
                   changes, outcome, updateCalls>>
    /\ UNCHANGED <<convVars, connVars, extVars>>

\* noteStore.updateNote(note) resolves
UpdateOk ==
    /\ pc = "update"
    /\ updateCalls' = updateCalls + 1
    /\ store' = note
    /\ outcome' = "committed"
    /\ pc' = "done"
    /\ UNCHANGED <<store0, replacements, note, originalResources, markdown, trace,
                   changes, retryCount>>
    /\ UNCHANGED <<convVars, connVars, extVars>>

\* noteStore.updateNote rejects with errorCode 19 and retries remain
UpdateRetry ==
    /\ pc = "update"
    /\ retryCount < maxRetries
    /\ updateCalls' = updateCalls + 1
    /\ retryCount' = retryCount + 1
    /\ UNCHANGED <<store, store0, replacements, pc, note, originalResources, markdown,
                   trace, changes, outcome>>
    /\ UNCHANGED <<convVars, connVars, extVars>>

\* noteStore.updateNote rejects with another error, or with errorCode 19
\* after the last retry: the enhanced error is thrown
UpdateFail ==
    /\ pc = "update"
    /\ \E errorCode \in {19, 3} : errorCode = 19 => retryCount >= maxRetries
    /\ updateCalls' = updateCalls + 1
    /\ outcome' = "threw"
    /\ pc' = "done"
    /\ UNCHANGED <<store, store0, replacements, note, originalResources, markdown, trace,
                   changes, retryCount>>
    /\ UNCHANGED <<convVars, connVars, extVars>>

\* ------------------------------------------- inputs of a forward conversion
EA == [hashHex |-> "aa", mimeType |-> "image/png", filename |-> "f.png",
       resource |-> RA]
EA2 == [hashHex |-> "AA", mimeType |-> "image/gif", filename |-> "",
        resource |-> RA]
EB == [hashHex |-> "bb", mimeType |-> "", filename |-> "", resource |-> RB]

\* lists without repetition; the two entries of digest aa come in both
\* orders, and the entry of the other digest comes last, its place having
\* no part in a map keyed by digest
ExistingLists ==
    {es \in SeqsUpTo({EA, EA2, EB}, MaxExisting) :
        /\ \A i, j \in DOMAIN es : i # j => es[i] # es[j]
        /\ \A i \in DOMAIN es : es[i] = EB => i = Len(es)}

\* references to known and unknown resources (in both letter cases), to
\* local files (two of them with the same bytes), to an unreadable file, to
\* file that does not exist, to a remote URL (whose last segment names a
\* file that exists locally), an image without href, a reference in the
\* scheme resource: and a file: URL of a file that does not exist
RefCatalog ==
    {Img("evernote-resource", "aa"), Img("evernote-resource", "AA"),
     Img("", "x.png"), Img("", "y.gif"), Img("", "z.pdf"),
     Img("", "lock.png"), Img("https", "x.png"),
     Img("", ""), Img("", "gone.png"),
     Img("resource", "aa"), Img("file", "gone.png")}

\* a resource with a digest and no file name
RI == [id |-> 4, bodyHash |-> "cc", body |-> 3, mime |-> "image/gif",
       fileName |-> ""]

\* the en-media elements of a stored note: with and without type, alt and
\* title, with an upper-case hash, of an image and of a document, and one
\* whose type attribute differs from the mime type of its resource
MediaCatalog ==
    {Media("aa", "image/png"), MediaAttrs("aa", "image/png", "", "ttl"),
     MediaAttrs("AA", "", "pic", "ttl"), Media("cc", ""),
     Media("bb", "application/pdf"), Media("aa", "application/pdf"),
     Ch("a")}

\* stored notes: each digest is attached in some of them and not in others
SourceNotes ==
    {[content |-> c, resources |-> rs] :
        c \in SeqsUpTo(MediaCatalog, MaxMedia),
        rs \in {r \in SeqsUpTo({RA, RB, RI}, MaxRes) :
                    \A i, j \in DOMAIN r : i # j => r[i] # r[j]}}

\* either markdownToENML is called on markdown written by hand, or a stored
\* note is about to be retrieved as markdown and written back
InitConv ==
    /\ PatchIdle
    /\ ConnIdle
    /\ ExtIdle
    /\ \/ /\ cSource = NoNote
          /\ cMarkdown \in SeqsUpTo(RefCatalog, MaxRefs)
          /\ cExisting \in ExistingLists
          /\ cPc = "render"
       \/ /\ cSource \in SourceNotes
          /\ cMarkdown = <<>>
          /\ cExisting = <<>>
          /\ cPc = "retrieve"
    /\ cPos = 1
    /\ attachments = <<>>
    /\ attachmentsByHash = <<>>
    /\ cOut = <<>>
    /\ cLog = <<>>
    /\ cResources = <<>>

\* evernote_get_note returns the note as markdown, and evernote_update_note
\* is called with that markdown: applyMarkdownToNote converts it with
\* note.resources as the existing resources
ConvRetrieve ==
    /\ cPc = "retrieve"
    /\ cMarkdown' = EnmlToMarkdown(cSource.content,
                                   NormalizeExistingResources(cSource.resources))
    /\ cExisting' = NormalizeExistingResources(cSource.resources)
    /\ cPc' = "render"
    /\ UNCHANGED <<cSource, cPos, attachments, attachmentsByHash, cOut, cLog,
                   cResources>>
    /\ UNCHANGED <<patchVars, connVars, extVars>>

\* the branch of renderImage the next token takes ("none" for a token the
\* image renderer is not called for)
NextKind ==
    LET tok == cMarkdown[cPos]
    IN IF tok.k = "img"
       THEN RefKind(tok, BuildExistingResourceMap(cExisting))
       ELSE "none"

\* marked hands the next token to the renderer
RenderNext ==
    LET r == RenderToken(cMarkdown[cPos], BuildExistingResourceMap(cExisting),
                         [attachments |-> attachments,
                          byHash |-> attachmentsByHash])
    IN /\ attachments' = r.reg.attachments
       /\ attachmentsByHash' = r.reg.byHash
       /\ cOut' = Append(cOut, r.out)
       /\ cLog' = Append(cLog, r.log)
       /\ cPos' = cPos + 1
       /\ UNCHANGED <<cSource, cMarkdown, cExisting, cPc, cResources>>
       /\ UNCHANGED <<patchVars, connVars, extVars>>

\* resource:<hex> reference found in existingMap
RenderExistingRef ==
    /\ cPc = "render"
    /\ cPos <= Len(cMarkdown)
    /\ NextKind = "existing"
    /\ RenderNext

\* local file resolved and read
RenderLocalFile ==
    /\ cPc = "render"
    /\ cPos <= Len(cMarkdown)
    /\ NextKind = "local"
    /\ RenderNext

\* fallbackLink: unknown resource, remote URL, or a read that threw
RenderFallbackLink ==
    /\ cPc = "render"
    /\ cPos <= Len(cMarkdown)
    /\ NextKind \in {"unknown", "remote", "unreadable"}
    /\ RenderNext

\* image without href: escaped text
RenderNoHref ==
    /\ cPc = "render"
    /\ cPos <= Len(cMarkdown)
    /\ NextKind = "empty"
    /\ RenderNext

\* a token the image renderer is not called for
RenderOther ==
    /\ cPc = "render"
    /\ cPos <= Len(cMarkdown)
    /\ NextKind = "none"
    /\ RenderNext

\* sanitizeHtml and the return of {enml, attachments}
ConvReturn ==
    /\ cPc = "render"
    /\ cPos > Len(cMarkdown)
    /\ cOut' = SanitizeHtml(cOut)
    /\ cPc' = "returned"
    /\ UNCHANGED <<cSource, cMarkdown, cExisting, cPos, attachments, attachmentsByHash,
                   cLog, cResources>>
    /\ UNCHANGED <<patchVars, connVars, extVars>>

\* the caller turns conversion.attachments into note resources
ConvBuildResources ==
    /\ cPc = "returned"
    /\ cResources' = BuildResourcesFromAttachments(attachments)
    /\ cPc' = "built"
    /\ UNCHANGED <<cSource, cMarkdown, cExisting, cPos, attachments, attachmentsByHash,
                   cOut, cLog>>
    /\ UNCHANGED <<patchVars, connVars, extVars>>

NextConv ==
    \/ ConvRetrieve
    \/ RenderExistingRef
    \/ RenderLocalFile
    \/ RenderFallbackLink
    \/ RenderNoHref
    \/ RenderOther
    \/ ConvReturn
    \/ ConvBuildResources

SpecConv == InitConv /\ [][NextConv]_vars

Next ==
    \/ PatchFetch
    \/ PatchFetchFail
    \/ PatchReplace
    \/ PatchNoMatch
    \/ PatchEmpty
    \/ PatchApply
    \/ UpdateOk
    \/ UpdateRetry
    \/ UpdateFail

Spec == Init /\ [][Next]_vars

\* ------------------------------------------------------ connection actions
InitialTokenFiles ==
    {NoFile, TokenFile(0), TokenFile(T0 - TickMs), TokenFile(T0 + TickMs)}

InitConn ==
    /\ PatchIdle
    /\ ConvIdle
    /\ ExtIdle
    /\ now = T0
    /\ api = 0
    /\ apiInitError = ""
    /\ lastInitAttempt = 0
    /\ tokenFile \in InitialTokenFiles
    /\ calls = [c \in 1..MaxCalls |-> IdleCall]
    /\ initCount = 0

\* a request is accepted while the run has attempts left
CanStart == initCount + 2 <= MaxInits

\* the slot a new request takes: the first one that is free
FreeSlot(c) ==
    /\ calls[c].pc = "idle"
    /\ \A d \in 1..(c - 1) : calls[d].pc # "idle"

\* the request in slot c goes on to await getAuthenticatedClient
StartAttempt(c, kind, at, retry) ==
    /\ calls' = [calls EXCEPT ![c] = [kind |-> kind, pc |-> at,
                                      n |-> initCount + 1, retry |-> retry]]
    /\ initCount' = initCount + 1

\* the CallTool handler's catch block for an authentication error: the
\* automatic recovery calls ensureAPI(true)
AutoRecover(c) ==
    /\ api' = EnsureAPI(TRUE, now).api
    /\ apiInitError' = EnsureAPI(TRUE, now).err
    /\ lastInitAttempt' = EnsureAPI(TRUE, now).last
    /\ StartAttempt(c, "tool", "recover", FALSE)

\* const evernoteApi = await ensureAPI() at the head of a request
EnterRequest(c, kind) ==
    LET e == EnsureAPI(FALSE, now)
    IN CASE e.outcome = "have" ->
              /\ calls' = [calls EXCEPT ![c] = [kind |-> kind, pc |-> "op",
                                                n |-> 0, retry |-> FALSE]]
              /\ UNCHANGED <<api, apiInitError, lastInitAttempt, initCount>>
         [] e.outcome = "attempt" ->
              /\ apiInitError' = e.err
              /\ lastInitAttempt' = e.last
              /\ StartAttempt(c, kind, "init", e.retry)
              /\ UNCHANGED api
         [] e.outcome = "cooldown" /\ kind = "tool" ->
              AutoRecover(c)
         [] OTHER ->
              UNCHANGED <<api, apiInitError, lastInitAttempt, calls,
                             initCount>>

\* a request for an ordinary tool arrives
ToolCall ==
    \E c \in 1..MaxCalls :
        /\ FreeSlot(c)
        /\ CanStart
        /\ EnterRequest(c, "tool")
        /\ UNCHANGED <<now, tokenFile>>
        /\ UNCHANGED <<patchVars, convVars, extVars>>

\* a request for evernote_health_check arrives: the handler's catch block
\* does not start the automatic recovery for it
HealthCheck ==
    \E c \in 1..MaxCalls :
        /\ FreeSlot(c)
        /\ CanStart
        /\ EnterRequest(c, "health")
        /\ UNCHANGED <<now, tokenFile>>
        /\ UNCHANGED <<patchVars, convVars, extVars>>

\* a request for evernote_reconnect arrives: ensureAPI(true)
Reconnect ==
    \E c \in 1..MaxCalls :
        /\ FreeSlot(c)
        /\ CanStart
        /\ api' = EnsureAPI(TRUE, now).api
        /\ apiInitError' = EnsureAPI(TRUE, now).err
        /\ lastInitAttempt' = EnsureAPI(TRUE, now).last
        /\ StartAttempt(c, "reconnect", "init", FALSE)
        /\ UNCHANGED <<now, tokenFile>>
        /\ UNCHANGED <<patchVars, convVars, extVars>>

\* a request for evernote_revoke_auth arrives: await oauth.revokeToken()
RevokeAuth ==
    \E c \in 1..MaxCalls :
        /\ FreeSlot(c)
        /\ CanStart
        /\ calls' = [calls EXCEPT ![c] = [kind |-> "revoke", pc |-> "unlink",
                                          n |-> 0, retry |-> FALSE]]
        /\ UNCHANGED <<now, api, apiInitError, lastInitAttempt, tokenFile,
                       initCount>>
        /\ UNCHANGED <<patchVars, convVars, extVars>>

\* fs.unlink of evernote_revoke_auth completes; the state is reset
RevokeComplete ==
    \E c \in 1..MaxCalls :
        /\ calls[c].kind = "revoke"
        /\ calls[c].pc = "unlink"
        /\ tokenFile' = NoFile
        /\ api' = 0
        /\ apiInitError' = ""
        /\ lastInitAttempt' = 0
        /\ calls' = [calls EXCEPT ![c] = IdleCall]
        /\ UNCHANGED <<now, initCount>>
        /\ UNCHANGED <<patchVars, convVars, extVars>>

\* getAuthenticatedClient resolved: ensureAPI stores the new instance, and
\* the request goes on
AttemptSucceeded(c, at) ==
    /\ api' = calls[c].n
    /\ apiInitError' = ""
    /\ UNCHANGED <<lastInitAttempt, initCount>>
    /\ IF at = "recover" \/ calls[c].kind = "reconnect"
       THEN calls' = [calls EXCEPT ![c] = IdleCall]
       ELSE calls' = [calls EXCEPT ![c] = [kind |-> calls[c].kind,
                                           pc |-> "op", n |-> 0,
                                           retry |-> calls[c].retry]]

\* getAuthenticatedClient rejected with msg: ensureAPI's catch block, then
\* the catch block of the request that called it
AttemptFailed(c, at, msg) ==
    /\ IF at = "init" /\ calls[c].kind = "tool"
       THEN AutoRecover(c)
       ELSE /\ apiInitError' = msg
            /\ calls' = [calls EXCEPT ![c] = IdleCall]
            /\ UNCHANGED <<api, lastInitAttempt, initCount>>

\* fs.readFile of a pending attempt completes: loadToken and validateToken
\* run, and either the token is returned, or nothing is found and
\* getAccessToken throws, or the token is invalid and revokeToken is awaited
AuthComplete ==
    \E c \in 1..MaxCalls :
        /\ calls[c].pc \in {"init", "recover"}
        /\ CASE ReadToken(tokenFile, now) = "ok" ->
                  AttemptSucceeded(c, calls[c].pc)
             [] ReadToken(tokenFile, now) = "none" ->
                  AttemptFailed(c, calls[c].pc, "Authentication required")
             [] OTHER ->
                  /\ calls' = [calls EXCEPT ![c].pc =
                                  IF calls[c].pc = "init" THEN "init-unlink"
                                  ELSE "recover-unlink"]
                  /\ UNCHANGED <<api, apiInitError, lastInitAttempt, initCount>>
        /\ UNCHANGED <<now, tokenFile>>
        /\ UNCHANGED <<patchVars, convVars, extVars>>

\* fs.unlink of getAccessToken's revokeToken completes; getAccessToken
\* throws 'Stored token is invalid or expired'
UnlinkComplete ==
    \E c \in 1..MaxCalls :
        /\ calls[c].pc \in {"init-unlink", "recover-unlink"}
        /\ tokenFile' = NoFile
        /\ AttemptFailed(c, IF calls[c].pc = "init-unlink" THEN "init"
                             ELSE "recover",
                         "Stored token is invalid or expired")
        /\ UNCHANGED now
        /\ UNCHANGED <<patchVars, convVars, extVars>>

\* the Evernote operation of a request completes: with a result, with an
\* error, or with an authentication error, for which an ordinary tool
\* request starts the automatic recovery
OpComplete ==
    \E c \in 1..MaxCalls, res \in {"ok", "op-error", "auth-error"} :
        /\ calls[c].pc = "op"
        /\ IF res = "auth-error" /\ calls[c].kind = "tool"
           THEN AutoRecover(c)
           ELSE /\ calls' = [calls EXCEPT ![c] = IdleCall]
                /\ UNCHANGED <<api, apiInitError, lastInitAttempt, initCount>>
        /\ UNCHANGED <<now, tokenFile>>
        /\ UNCHANGED <<patchVars, convVars, extVars>>

\* time passes
Tick ==
    /\ now < MaxTime
    /\ now' = now + TickMs
    /\ UNCHANGED <<api, apiInitError, lastInitAttempt, tokenFile, calls,
                   initCount>>
    /\ UNCHANGED <<patchVars, convVars, extVars>>

\* the user runs the authentication flow, which writes a new token file
UserAuthenticates ==
    /\ tokenFile # TokenFile(0)
    /\ tokenFile' = TokenFile(0)
    /\ UNCHANGED <<now, api, apiInitError, lastInitAttempt, calls,
                   initCount>>
    /\ UNCHANGED <<patchVars, convVars, extVars>>

NextConn ==
    \/ ToolCall
    \/ HealthCheck
    \/ Reconnect
    \/ RevokeAuth
    \/ RevokeComplete
    \/ AuthComplete
    \/ UnlinkComplete
    \/ OpComplete
    \/ Tick
    \/ UserAuthenticates

SpecConn == InitConn /\ [][NextConn]_vars

\* -------------------------------------------------------- token resolution
\* token files: absent, unparseable, and records with and without token,
\* legacy accessToken and expires (past, now, future)
TokenFiles ==
    {MissingFile, GarbageFile} \cup
    {TokenRecord(tk, ac, ex) :
        tk \in {"null", "", "F"}, ac \in {"null", "L"},
        ex \in {0, T0 - TickMs, T0, T0 + TickMs}}

InitTok ==
    /\ PatchIdle
    /\ ConvIdle
    /\ ConnIdle
    /\ UpdIdle
    /\ CfgIdle
    /\ PollIdle
    /\ tEnv \in [access : {"", "E"}, claude : BOOLEAN, oauth : {"", "O"}]
    /\ tFile \in TokenFiles
    /\ tFile0 = tFile
    /\ tPc = "start"
    /\ tResult = NoTokenResult
    /\ tConsulted = <<>>

\* EVERNOTE_ACCESS_TOKEN is set: its token is validated and returned
TokenFromEnv ==
    /\ tPc = "start"
    /\ TokenSource(tEnv) = "env"
    /\ tConsulted' = Consulted(tEnv)
    /\ IF ValidateToken([token |-> tEnv.access, expires |-> 0], now)
       THEN tResult' = [token |-> tEnv.access, source |-> "env", msg |-> ""]
       ELSE tResult' = [token |-> "", source |-> "env",
                        msg |-> "Environment token is invalid or expired"]
    /\ tPc' = "done"
    /\ UNCHANGED <<tEnv, tFile, tFile0>>
    /\ UNCHANGED <<patchVars, convVars, connVars, updVars, cfgVars, pollVars>>

\* running under Claude Code with OAUTH_TOKEN set
TokenFromClaudeCode ==
    /\ tPc = "start"
    /\ TokenSource(tEnv) = "oauth"
    /\ tConsulted' = Consulted(tEnv)
    /\ IF ValidateToken([token |-> tEnv.oauth, expires |-> 0], now)
       THEN tResult' = [token |-> tEnv.oauth, source |-> "oauth", msg |-> ""]
       ELSE tResult' = [token |-> "", source |-> "oauth",
                        msg |-> "Claude Code OAuth token is invalid or expired. Please re-authenticate."]
    /\ tPc' = "done"
    /\ UNCHANGED <<tEnv, tFile, tFile0>>
    /\ UNCHANGED <<patchVars, convVars, connVars, updVars, cfgVars, pollVars>>

\* neither is set: await this.loadToken()
TokenLoadFile ==
    /\ tPc = "start"
    /\ TokenSource(tEnv) = "file"
    /\ tConsulted' = Consulted(tEnv)
    /\ tPc' = "read"
    /\ UNCHANGED <<tEnv, tFile, tFile0, tResult>>
    /\ UNCHANGED <<patchVars, convVars, connVars, updVars, cfgVars, pollVars>>

\* fs.readFile completes: loadToken and validateToken run
TokenFileRead ==
    /\ tPc = "read"
    /\ LET existingToken == LoadToken(tFile, now)
       IN IF existingToken = NoTokens
          THEN /\ tResult' =
                     [token |-> "", source |-> "",
                      msg |-> IF tEnv.claude
                              THEN "Authentication required. Use /mcp command in Claude Code to authenticate."
                              ELSE "Authentication required. Please run \"npm run auth\" first."]
               /\ tPc' = "done"
          ELSE IF ValidateToken(existingToken, now)
          THEN /\ tResult' = [token |-> existingToken.token,
                               source |-> "file", msg |-> ""]
               /\ tPc' = "done"
          ELSE /\ tPc' = "unlink"
               /\ UNCHANGED tResult
    /\ UNCHANGED <<tEnv, tFile, tFile0, tConsulted>>
    /\ UNCHANGED <<patchVars, convVars, connVars, updVars, cfgVars, pollVars>>

\* fs.unlink of revokeToken completes and getAccessToken throws
TokenUnlink ==
    /\ tPc = "unlink"
    /\ tFile' = MissingFile
    /\ tResult' = [token |-> "", source |-> "file",
                    msg |-> "Stored token is invalid or expired. Please re-authenticate."]
    /\ tPc' = "done"
    /\ UNCHANGED <<tEnv, tFile0, tConsulted>>
    /\ UNCHANGED <<patchVars, convVars, connVars, updVars, cfgVars, pollVars>>

NextTok ==
    \/ TokenFromEnv
    \/ TokenFromClaudeCode
    \/ TokenLoadFile
    \/ TokenFileRead
    \/ TokenUnlink

SpecTok == InitTok /\ [][NextTok]_vars

\* ---------------------------------------------------- module load: polling
\* values of EVERNOTE_POLL_INTERVAL: unset, empty, zero, negative, numbers
\* below and above the minimum, text, and digits followed by text
PollEnvValues ==
    {Unset} \cup
    {[set |-> TRUE, s |-> t] : t \in SeqsUpTo({"0", "9", "-", "a"}, MaxChars)}

InitCfg ==
    /\ PatchIdle
    /\ ConvIdle
    /\ ConnIdle
    /\ TokIdle
    /\ UpdIdle
    /\ PollIdle
    /\ pollEnv \in PollEnvValues
    /\ POLL_INTERVAL = NaN
    /\ cfgPc = "load"

\* const POLL_INTERVAL = Math.max(MIN_POLL_INTERVAL, parseInt(...))
LoadPollInterval ==
    /\ cfgPc = "load"
    /\ POLL_INTERVAL' = PollInterval(pollEnv)
    /\ cfgPc' = "loaded"
    /\ UNCHANGED pollEnv
    /\ UNCHANGED <<patchVars, convVars, connVars, tokVars, updVars, pollVars>>

NextCfg ==
    \/ LoadPollInterval

SpecCfg == InitCfg /\ [][NextCfg]_vars

\* ---------------------------------------------------------- polling actions
\* POLLING_ENABLED decides whether main() arms the auto-start timeout
InitPoll ==
    /\ PatchIdle
    /\ ConvIdle
    /\ ConnIdle
    /\ TokIdle
    /\ UpdIdle
    /\ CfgIdle
    /\ pollInterval = 0
    /\ timers = {}
    /\ timersCreated = 0
    /\ alreadyRunning = FALSE
    /\ autoStart \in {"off", "pending"}
    /\ pollErrorCount = 0
    /\ lastUpdateCount = -1
    /\ lastPollTime = 0
    /\ polls = NoPolls
    /\ serverCount = BaseCount
    /\ timesReported = NothingReported
    /\ failStreak = 0

\* startPolling without its test of pollInterval
NeverRunning(interval) == FALSE

\* if (pollInterval) in startPolling
AlreadyRunning(interval) == interval # 0

\* getPollingStatus().running
Running == pollInterval # 0

\* pollOnce up to its first await, the one of ensureAPI in checkForChanges
PollOnceStarts ==
    /\ lastPollTime < MaxPolls
    /\ lastPollTime' = lastPollTime + 1
    /\ pollErrorCount' = 0
    /\ polls' = AddPoll(polls, AtEnsure)

\* startPolling(): the initial poll and the interval timer, unless a timer
\* is held already
StartPolling ==
    IF AlreadyRunning(pollInterval)
    THEN /\ alreadyRunning' = TRUE
         /\ UNCHANGED <<pollInterval, timers, timersCreated, pollErrorCount,
                        lastPollTime, polls>>
    ELSE /\ timersCreated < MaxTimers
         /\ PollOnceStarts
         /\ timersCreated' = timersCreated + 1
         /\ pollInterval' = timersCreated + 1
         /\ timers' = timers \cup {timersCreated + 1}
         /\ UNCHANGED alreadyRunning

\* stopPolling(): clearInterval(pollInterval) and pollInterval = null
StopPolling ==
    /\ pollInterval' = 0
    /\ timers' = timers \ {pollInterval}

\* the catch block of checkForChanges for the poll waiting at s
CatchPollError(s) ==
    /\ polls' = RemovePoll(polls, s)
    /\ pollErrorCount' = pollErrorCount + 1
    /\ IF pollErrorCount + 1 >= 5
       THEN StopPolling
       ELSE UNCHANGED <<pollInterval, timers>>
    /\ failStreak' = failStreak + 1
    /\ UNCHANGED <<timersCreated, alreadyRunning, autoStart, lastUpdateCount,
                   lastPollTime, serverCount, timesReported>>

\* the evernote_start_polling tool
StartPollingTool ==
    /\ StartPolling
    /\ UNCHANGED <<autoStart, lastUpdateCount, serverCount, timesReported,
                   failStreak>>
    /\ UNCHANGED <<patchVars, convVars, connVars, tokVars, updVars, cfgVars>>

\* the timeout that main() set five seconds after the server connected
AutoStartPolling ==
    /\ autoStart = "pending"
    /\ autoStart' = "done"
    /\ StartPolling
    /\ UNCHANGED <<lastUpdateCount, serverCount, timesReported, failStreak>>
    /\ UNCHANGED <<patchVars, convVars, connVars, tokVars, updVars, cfgVars>>

\* the evernote_stop_polling tool
StopPollingTool ==
    /\ StopPolling
    /\ UNCHANGED <<timersCreated, alreadyRunning, autoStart, pollErrorCount,
                   lastUpdateCount, lastPollTime, polls, serverCount,
                   timesReported, failStreak>>
    /\ UNCHANGED <<patchVars, convVars, connVars, tokVars, updVars, cfgVars>>

\* the evernote_poll_now tool: await pollOnce()
PollNow ==
    /\ PollOnceStarts
    /\ UNCHANGED <<pollInterval, timers, timersCreated, alreadyRunning,
                   autoStart, lastUpdateCount, serverCount, timesReported,
                   failStreak>>
    /\ UNCHANGED <<patchVars, convVars, connVars, tokVars, updVars, cfgVars>>

\* an active interval timer fires: its callback calls pollOnce()
TimerFires ==
    /\ timers # {}
    /\ PollOnceStarts
    /\ UNCHANGED <<pollInterval, timers, timersCreated, alreadyRunning,
                   autoStart, lastUpdateCount, serverCount, timesReported,
                   failStreak>>
    /\ UNCHANGED <<patchVars, convVars, connVars, tokVars, updVars, cfgVars>>

\* await ensureAPI() of a poll settles
PollEnsureAPI ==
    \E ok \in BOOLEAN :
        /\ BagIn(AtEnsure, polls)
        /\ IF ok
           THEN /\ polls' = MovePoll(polls, AtEnsure, AtSync)
                /\ UNCHANGED <<pollInterval, timers, timersCreated,
                               alreadyRunning, autoStart, pollErrorCount,
                               lastUpdateCount, lastPollTime, serverCount,
                               timesReported, failStreak>>
           ELSE CatchPollError(AtEnsure)
        /\ UNCHANGED <<patchVars, convVars, connVars, tokVars, updVars, cfgVars>>

\* await evernoteApi.getSyncState() of a poll settles: the first poll
\* stores the count, an equal count ends the poll, another count goes on to
\* getSyncChunk(lastUpdateCount, 100, false)
PollGetSyncState ==
    \E ok \in BOOLEAN :
        /\ BagIn(AtSync, polls)
        /\ IF ~ok THEN CatchPollError(AtSync)
           ELSE /\ IF lastUpdateCount = -1
                   THEN /\ lastUpdateCount' = serverCount
                        /\ polls' = RemovePoll(polls, AtSync)
                        /\ failStreak' = 0
                   ELSE IF serverCount = lastUpdateCount
                   THEN /\ polls' = RemovePoll(polls, AtSync)
                        /\ failStreak' = 0
                        /\ UNCHANGED lastUpdateCount
                   ELSE /\ polls' = MovePoll(polls, AtSync,
                                             AtChunk(lastUpdateCount, serverCount))
                        /\ UNCHANGED <<lastUpdateCount, failStreak>>
                /\ UNCHANGED <<pollInterval, timers, timersCreated,
                               alreadyRunning, autoStart, pollErrorCount,
                               lastPollTime, serverCount, timesReported>>
        /\ UNCHANGED <<patchVars, convVars, connVars, tokVars, updVars, cfgVars>>

\* the changes pushed for a chunk that holds the entries after from, as the
\* service has them when it answers
ReportChunk(reported, from) ==
    [u \in Counts |->
        IF u > from /\ u <= serverCount /\ reported[u] < 2
        THEN reported[u] + 1 ELSE reported[u]]

\* await evernoteApi.getSyncChunk(...) of a poll settles: its entries become
\* changes, or the inner catch swallows the error; then
\* lastUpdateCount = currentUpdateCount
PollGetSyncChunk ==
    \E s \in PollStates, ok \in BOOLEAN :
        /\ s.pc = "chunk"
        /\ BagIn(s, polls)
        /\ polls' = RemovePoll(polls, s)
        /\ timesReported' = IF ok THEN ReportChunk(timesReported, s.from)
                            ELSE timesReported
        /\ lastUpdateCount' = s.cur
        /\ failStreak' = 0
        /\ UNCHANGED <<pollInterval, timers, timersCreated, alreadyRunning,
                       autoStart, pollErrorCount, lastPollTime, serverCount>>
        /\ UNCHANGED <<patchVars, convVars, connVars, tokVars, updVars, cfgVars>>

\* a note, notebook or tag of the account changes on the service
ServerUpdate ==
    /\ serverCount < BaseCount + MaxUpdates
    /\ serverCount' = serverCount + 1
    /\ UNCHANGED <<pollInterval, timers, timersCreated, alreadyRunning,
                   autoStart, pollErrorCount, lastUpdateCount, lastPollTime,
                   polls, timesReported, failStreak>>
    /\ UNCHANGED <<patchVars, convVars, connVars, tokVars, updVars, cfgVars>>

NextPoll ==
    \/ StartPollingTool
    \/ AutoStartPolling
    \/ StopPollingTool
    \/ PollNow
    \/ TimerFires
    \/ PollEnsureAPI
    \/ PollGetSyncState
    \/ PollGetSyncChunk
    \/ ServerUpdate

SpecPoll == InitPoll /\ [][NextPoll]_vars

\* -------------------------------------------------- evernote_update_note
InitUpd ==
    /\ PatchIdle
    /\ ConvIdle
    /\ ConnIdle
    /\ TokIdle
    /\ CfgIdle
    /\ PollIdle
    /\ uArgs \in [forceUpdate : BOOLEAN, content : BOOLEAN, title : BOOLEAN]
    /\ uPc = "get"
    /\ uRetryCount = 0
    /\ uCalls = 0
    /\ uDelays = <<>>
    /\ uLastCode = -1
    /\ uError = NoError
    /\ uCreated = FALSE
    /\ uDeleteCalls = 0
    /\ uResult = ""
    /\ uForceFailed = FALSE

\* the handler's catch (stepError) block: the force update starts when the
\* error has errorCode 19 and forceUpdate is set, else the error is thrown
CatchStepError(err) ==
    /\ uError' = err
    /\ IF err.errorCode = 19 /\ uArgs.forceUpdate
       THEN /\ uPc' = "reget"
            /\ UNCHANGED uResult
       ELSE /\ uPc' = "done"
            /\ uResult' = "error"

\* catch (forceError): the message is appended and stepError is thrown
CatchForceError ==
    /\ uForceFailed' = TRUE
    /\ uResult' = "error"
    /\ uPc' = "done"

\* Step 1, getNote, resolves; the fields are updated and updateNote(note)
\* is called
UpdGetNote ==
    /\ uPc = "get"
    /\ uPc' = "update"
    /\ uRetryCount' = 0
    /\ UNCHANGED <<uArgs, uCalls, uDelays, uLastCode, uError, uCreated,
                   uDeleteCalls, uResult, uForceFailed>>
    /\ UNCHANGED <<patchVars, convVars, connVars, tokVars, cfgVars, pollVars>>

\* Step 1, getNote, rejects
UpdGetNoteFails ==
    /\ uPc = "get"
    /\ \E code \in ErrorCodes :
          CatchStepError([errorCode |-> code, retriesAttempted |-> -1,
                          from |-> "getNote"])
    /\ UNCHANGED <<uArgs, uRetryCount, uCalls, uDelays, uLastCode, uCreated,
                   uDeleteCalls, uForceFailed>>
    /\ UNCHANGED <<patchVars, convVars, connVars, tokVars, cfgVars, pollVars>>

\* noteStore.updateNote resolves
UpdCallOk ==
    /\ uPc = "update"
    /\ uCalls' = uCalls + 1
    /\ uResult' = "updated"
    /\ uPc' = "done"
    /\ UNCHANGED <<uArgs, uRetryCount, uDelays, uLastCode, uError, uCreated,
                   uDeleteCalls, uForceFailed>>
    /\ UNCHANGED <<patchVars, convVars, connVars, tokVars, cfgVars, pollVars>>

\* noteStore.updateNote rejects with errorCode 19 and retries remain: the
\* timer is set
UpdCallRetry ==
    /\ uPc = "update"
    /\ uRetryCount < maxRetries
    /\ uCalls' = uCalls + 1
    /\ uLastCode' = 19
    /\ uDelays' = Append(uDelays, RetryDelay(uRetryCount))
    /\ uPc' = "wait"
    /\ UNCHANGED <<uArgs, uRetryCount, uError, uCreated, uDeleteCalls, uResult,
                   uForceFailed>>
    /\ UNCHANGED <<patchVars, convVars, connVars, tokVars, cfgVars, pollVars>>

\* the timer fires: this.updateNote(note, retryCount + 1)
UpdTimer ==
    /\ uPc = "wait"
    /\ uRetryCount' = uRetryCount + 1
    /\ uPc' = "update"
    /\ UNCHANGED <<uArgs, uCalls, uDelays, uLastCode, uError, uCreated,
                   uDeleteCalls, uResult, uForceFailed>>
    /\ UNCHANGED <<patchVars, convVars, connVars, tokVars, cfgVars, pollVars>>

\* noteStore.updateNote rejects with another error, or with errorCode 19
\* after the last retry: the enhanced error is thrown to the handler
UpdCallFail ==
    /\ uPc = "update"
    /\ \E code \in ErrorCodes :
          /\ code = 19 => uRetryCount >= maxRetries
          /\ uLastCode' = code
          /\ CatchStepError([errorCode |-> code,
                             retriesAttempted |-> uRetryCount,
                             from |-> "updateNote"])
    /\ uCalls' = uCalls + 1
    /\ UNCHANGED <<uArgs, uRetryCount, uDelays, uCreated, uDeleteCalls,
                   uForceFailed>>
    /\ UNCHANGED <<patchVars, convVars, connVars, tokVars, cfgVars, pollVars>>

\* force update: getNote resolves or rejects
UpdReget ==
    /\ uPc = "reget"
    /\ \/ /\ uPc' = "create"
          /\ UNCHANGED <<uResult, uForceFailed>>
       \/ CatchForceError
    /\ UNCHANGED <<uArgs, uRetryCount, uCalls, uDelays, uLastCode, uError,
                   uCreated, uDeleteCalls>>
    /\ UNCHANGED <<patchVars, convVars, connVars, tokVars, cfgVars, pollVars>>

\* force update: createNote resolves or rejects
UpdCreate ==
    /\ uPc = "create"
    /\ \/ /\ uCreated' = TRUE
          /\ uPc' = "delete"
          /\ UNCHANGED <<uResult, uForceFailed>>
       \/ /\ CatchForceError
          /\ UNCHANGED uCreated
    /\ UNCHANGED <<uArgs, uRetryCount, uCalls, uDelays, uLastCode, uError,
                   uDeleteCalls>>
    /\ UNCHANGED <<patchVars, convVars, connVars, tokVars, cfgVars, pollVars>>

\* force update: deleteNote(guid) resolves or rejects
UpdDelete ==
    /\ uPc = "delete"
    /\ uDeleteCalls' = uDeleteCalls + 1
    /\ \/ /\ uResult' = "forced"
          /\ uPc' = "done"
          /\ UNCHANGED uForceFailed
       \/ CatchForceError
    /\ UNCHANGED <<uArgs, uRetryCount, uCalls, uDelays, uLastCode, uError,
                   uCreated>>
    /\ UNCHANGED <<patchVars, convVars, connVars, tokVars, cfgVars, pollVars>>

NextUpd ==
    \/ UpdGetNote
    \/ UpdGetNoteFails
    \/ UpdCallOk
    \/ UpdCallRetry
    \/ UpdTimer
    \/ UpdCallFail
    \/ UpdReget
    \/ UpdCreate
    \/ UpdDelete

SpecUpd == InitUpd /\ [][NextUpd]_vars

\* every await of the request completes
SpecUpdFair == SpecUpd /\ WF_vars(NextUpd)

\* ------------------------------------------------- properties: patch engine
\* the markdown after the first k replacements, applied in list order
RECURSIVE PatchedMarkdown(_, _, _)
PatchedMarkdown(md, reps, k) ==
    IF k = 0 THEN md
    ELSE ApplyReplacement(PatchedMarkdown(md, reps, k - 1), reps[k]).markdown

\* the markdown projection of the note the store held before the call
Markdown0 ==
    EnmlToMarkdown(store0.content, NormalizeExistingResources(store0.resources))

\* the body the store holds when every replacement of the call is applied
FullyPatchedContent ==
    MarkdownToENML(PatchedMarkdown(Markdown0, replacements, Len(replacements)),
                   NormalizeExistingResources(store0.resources)).enml

\* getNote resolved and the loop has processed every replacement
AllProcessed == trace # <<>> /\ Len(changes) = Len(replacements)

\* C1 (as claimed): a finished patchNoteContent call ended as no-match,
\* empty-result or committed, and the store holds either the note with all
\* replacements applied (committed) or the note it held before.
C1_ThreeOutcomes ==
    pc = "done" =>
        /\ outcome \in {"no-match", "empty", "committed"}
        /\ \/ outcome = "committed" /\ store.content = FullyPatchedContent
           \/ store = store0

\* C1 (amended): a finished call ended as no-match, empty-result, committed
\* or by throwing (getNote or updateNote rejected); at every moment the store
\* holds the note it held before the call, unless the call committed after a
\* noteStore.updateNote that resolved, and then its body is the body with all
\* replacements applied.
C1_NoPartialCommit ==
    /\ pc = "done" <=> outcome # "none"
    /\ outcome \in {"none", "no-match", "empty", "committed", "threw"}
    /\ outcome = "committed" =>
          /\ AllProcessed
          /\ updateCalls >= 1
          /\ store.content = FullyPatchedContent
    /\ outcome # "committed" => store = store0

C1_Witness ==
    /\ outcome = "committed"
    /\ Len(replacements) = 2
    /\ changes[1].replaced > 0
    /\ changes[2].replaced > 0
    /\ store.content # store0.content
    /\ store.content #
          MarkdownToENML(PatchedMarkdown(Markdown0, replacements, 1), <<>>).enml

\* C2: once every replacement is processed with replaced = 0 each, the call
\* returns the no-match result with one record per replacement, never calls
\* noteStore.updateNote, leaves the store as it was and does not throw.
C2_NoMatchAborts ==
    (AllProcessed /\ \A k \in DOMAIN changes : changes[k].replaced = 0) =>
        /\ outcome \in {"none", "no-match"}
        /\ pc \in {"loop", "done"}
        /\ updateCalls = 0
        /\ store = store0
        /\ \A k \in DOMAIN replacements :
              /\ changes[k].find = replacements[k].find
              /\ changes[k].occurrences = 0

C2_Witness ==
    /\ pc = "done"
    /\ outcome = "no-match"
    /\ Len(changes) = 2
    /\ updateCalls = 0

\* C3: once every replacement is processed, at least one matched, and the
\* markdown is empty or all white space, the call returns the empty-content
\* result, never calls noteStore.updateNote and leaves the store as it was.
C3_EmptyResultAborts ==
    (/\ AllProcessed
     /\ \E k \in DOMAIN changes : changes[k].replaced > 0
     /\ \A i \in DOMAIN markdown : IsWhiteSpace(markdown[i])) =>
        /\ outcome \in {"none", "empty"}
        /\ pc \in {"loop", "done"}
        /\ updateCalls = 0
        /\ store = store0

C3_Witness ==
    /\ pc = "done"
    /\ outcome = "empty"
    /\ markdown # <<>>
    /\ \A i \in DOMAIN markdown : IsWhiteSpace(markdown[i])
    /\ store = store0

\* where the literal occurrences of find start in md, left to right and not
\* overlapping; the empty string occurs at every position
RECURSIVE LiteralStarts(_, _, _)
LiteralStarts(md, find, from) ==
    LET c == {i \in from..(Len(md) + 1) : MatchAt(md, find, i)}
    IN IF c = {} THEN {}
       ELSE {SetMin(c)} \cup
            LiteralStarts(md, find,
                          SetMin(c) + (IF find = <<>> THEN 1 ELSE Len(find)))

\* md with the occurrence of find at each position of starts replaced by rep
RECURSIVE ReplaceAt(_, _, _, _, _)
ReplaceAt(md, i, starts, find, rep) ==
    IF i > Len(md) THEN (IF i \in starts THEN rep ELSE <<>>)
    ELSE IF i \in starts
    THEN IF find = <<>>
         THEN rep \o <<md[i]>> \o ReplaceAt(md, i + 1, starts, find, rep)
         ELSE rep \o ReplaceAt(md, i + Len(find), starts, find, rep)
    ELSE <<md[i]>> \o ReplaceAt(md, i + 1, starts, find, rep)

ReplaceAllFlag(r) == r.replaceAll # "false"

\* C4 on the k-th replacement: before is the markdown it saw, after the
\* markdown it left
C4_Holds(before, after, r, c) ==
    LET starts == LiteralStarts(before, r.find, 1)
        first == SetMin(starts)
        tail == Len(before) - (first + Len(r.find) - 1)
    IN /\ c.occurrences = Cardinality(starts)
       /\ (starts # {} /\ ReplaceAllFlag(r)) =>
             /\ c.replaced = c.occurrences
             /\ after = ReplaceAt(before, 1, starts, r.find, r.replace)
       /\ (starts # {} /\ ~ReplaceAllFlag(r)) =>
             /\ c.replaced = 1
             /\ Len(after) >= first - 1 + tail
             /\ SubSeq(after, 1, first - 1) = SubSeq(before, 1, first - 1)
             /\ SubSeq(after, Len(after) - tail + 1, Len(after)) =
                   SubSeq(before, Len(before) - tail + 1, Len(before))
       /\ starts = {} => c.replaced = 0 /\ after = before

\* C4 (as claimed): every record of changes reports the number of literal
\* occurrences of find in the markdown of its step; with replaceAll true or
\* omitted replaced = occurrences and every occurrence is replaced; with
\* replaceAll false and a match replaced = 1 and only the first occurrence
\* changes; without a match replaced = 0 and the markdown is unchanged.
C4_CountsAndReplaces ==
    \A k \in DOMAIN changes :
        C4_Holds(trace[k], trace[k + 1], replacements[k], changes[k])

\* C5: the k-th record of changes belongs to the k-th replacement of the
\* list, and it is counted and applied against the markdown left by
\* replacements 1..k-1: trace[1] is the converted note, and trace[k + 1] is
\* what replacement k makes of trace[k].
C5_SequentialInOrder ==
    /\ \A k \in DOMAIN changes :
          LET step == ApplyReplacement(trace[k], replacements[k])
          IN /\ k <= Len(replacements)
             /\ changes[k].find = replacements[k].find
             /\ changes[k] = step.change
             /\ trace[k + 1] = step.markdown
    /\ trace # <<>> =>
          /\ Len(trace) = Len(changes) + 1
          /\ trace[1] = Markdown0
          /\ markdown = trace[Len(trace)]

\* the second replacement matches text that only the first one introduced
C5_Witness ==
    /\ Len(changes) = 2
    /\ replacements[1] # replacements[2]
    /\ changes[1].replaced > 0
    /\ RegexMatchCount(trace[1], replacements[2].find) = 0
    /\ changes[2].occurrences > 0

\* a resource is in a list when the list holds that resource or one with
\* the same data.bodyHash
ResourcePresent(r, list) ==
    \E i \in DOMAIN list :
        \/ list[i] = r
        \/ r.bodyHash # "" /\ list[i].bodyHash = r.bodyHash

\* C6 (as claimed): after a committed patch every resource the note had
\* before is in the resource list sent to noteStore.updateNote.
C6_ResourcesPreserved ==
    outcome = "committed" =>
        \A i \in DOMAIN store0.resources :
            ResourcePresent(store0.resources[i], store.resources)

\* ------------------------------------------ properties: attachment registry
\* the step-by-step conversion returns what markdownToENML computes
ConvAgreesWithFunction ==
    cPc \in {"returned", "built"} =>
        /\ cOut = MarkdownToENML(cMarkdown, cExisting).enml
        /\ attachments = MarkdownToENML(cMarkdown, cExisting).attachments

\* the log entries that registered a candidate
Registrations == {k \in DOMAIN cLog : cLog[k].candidate # NoAttachment}

\* the first reference whose candidate carries digest h
FirstReference(h) ==
    SetMin({k \in Registrations : cLog[k].candidate.hashHex = h})

\* C7: the attachment list holds at most one entry per digest, and the list
\* and the by-hash map hold the same entries, after any registrations.
C7_OnePerDigest ==
    /\ \A i, j \in DOMAIN attachments :
          i # j => attachments[i].hashHex # attachments[j].hashHex
    /\ DOMAIN attachmentsByHash =
          {attachments[i].hashHex : i \in DOMAIN attachments}
    /\ \A i \in DOMAIN attachments :
          attachmentsByHash[attachments[i].hashHex] = attachments[i]
    /\ {attachments[i].hashHex : i \in DOMAIN attachments} =
          {cLog[k].candidate.hashHex : k \in Registrations}

\* the same bytes referenced three times, by two paths and by resource:<hex>
C7_Witness ==
    /\ cPc = "returned"
    /\ Cardinality(Registrations) = 3
    /\ Cardinality({cLog[k].tok : k \in Registrations}) = 3
    /\ \E k \in Registrations : cLog[k].kind = "existing"
    /\ Len(attachments) = 1

\* C8: a registration whose digest was registered before returns the entry of
\* the first registration and the registry keeps that entry, fields and all;
\* the en-media element emitted carries the first-seen mime type.
C8_FirstSeenWins ==
    \A k \in Registrations :
        LET h == cLog[k].candidate.hashHex
            first == cLog[FirstReference(h)].candidate
        IN /\ cLog[k].ret = first
           /\ h \in DOMAIN attachmentsByHash
           /\ attachmentsByHash[h] = first
           /\ \E i \in DOMAIN attachments : attachments[i] = first
           /\ cOut[k] = MediaAttrs(h, first.mimeType, cLog[k].tok.a,
                                    cLog[k].tok.ti)

\* a later candidate differs from the stored one in mime type, data and isNew
C8_Witness ==
    \E k \in Registrations :
        /\ cLog[k].candidate.mimeType # cLog[k].ret.mimeType
        /\ cLog[k].candidate.isNew # cLog[k].ret.isNew
        /\ cLog[k].candidate.data # cLog[k].ret.data
        /\ cPc = "returned"

\* C8, the registry part as a step property: a registration of a digest
\* already present leaves the list and the map unchanged
C8_DuplicateLeavesRegistry ==
    [][(cPc = "render" /\ cPos <= Len(cMarkdown) /\ cPos' = cPos + 1
        /\ Len(cLog') = Len(cLog) + 1
        /\ cLog'[Len(cLog')].candidate.hashHex \in DOMAIN attachmentsByHash)
       => (attachments' = attachments /\ attachmentsByHash' = attachmentsByHash)]_vars

\* C9: the list is ordered by first registration: A is before B in the list
\* exactly when the first reference to A's digest was processed before the
\* first reference to B's digest.
C9_FirstRegistrationOrder ==
    \A i, j \in DOMAIN attachments :
        i < j <=> FirstReference(attachments[i].hashHex)
                     < FirstReference(attachments[j].hashHex)

\* two digests, and a later duplicate reference to the first of them
C9_Witness ==
    /\ cPc = "returned"
    /\ Len(attachments) = 2
    /\ Cardinality(Registrations) = 3
    /\ cLog[3].candidate.hashHex = attachments[1].hashHex
    /\ cLog[2].candidate.hashHex = attachments[2].hashHex

\* the digests of options.existingResources
ExistingDigests == {ToLowerCase(cExisting[j].hashHex) : j \in DOMAIN cExisting}

\* C10 (as claimed): an attachment whose digest is the digest of an existing
\* resource is never marked isNew and never rebuilt as a new upload.
C10_ExistingNeverNew ==
    /\ \A i \in DOMAIN attachments :
          attachments[i].hashHex \in ExistingDigests => ~attachments[i].isNew
    /\ \A i \in DOMAIN cResources :
          cResources[i].bodyHash \in ExistingDigests => cResources[i].id # 0

\* the mime type renderImage takes from a known attachment
KnownMimeType(h) ==
    LET existing == BuildExistingResourceMap(cExisting)[h]
    IN IF existing.mimeType # "" THEN existing.mimeType
       ELSE "application/octet-stream"

\* the references that named a known attachment by its digest
ExistingRefs == {k \in DOMAIN cLog : cLog[k].kind = "existing"}

\* C11 (as claimed): a reference by digest (in either letter case) to a known
\* attachment leaves that digest registered with isNew = false and without
\* data, with the known attachment's mime type, and emits an en-media
\* element with the lower-case digest and that mime type.
C11_ExistingRefRegistered ==
    \A k \in ExistingRefs :
        LET h == ToLowerCase(cLog[k].tok.v)
        IN /\ h \in DOMAIN attachmentsByHash
           /\ ~attachmentsByHash[h].isNew
           /\ attachmentsByHash[h].data = 0
           /\ attachmentsByHash[h].mimeType = KnownMimeType(h)
           /\ cOut[k].k = "en-media"
           /\ cOut[k].v = h
           /\ cOut[k].t = KnownMimeType(h)

\* ------------------------------------------------- properties: round trip
\* the digests of the resources attached to the retrieved note
SourceDigests ==
    {ResourceHashHex(cSource.resources[j]) : j \in DOMAIN cSource.resources}

\* the en-media elements of the retrieved note that embed one of its
\* resources
EmbeddedMedia ==
    {i \in DOMAIN cSource.content :
        /\ cSource.content[i].k = "en-media"
        /\ ToLowerCase(cSource.content[i].v) \in SourceDigests}

\* C12 (as claimed): after a note is retrieved as markdown and that markdown
\* is converted back with the note's resources as existing resources, every
\* resource the note embeds, image or not, is in the attachment list as an
\* existing attachment and is embedded in the new body.
C12_RoundTripKeepsAttachments ==
    (cSource # NoNote /\ cPc \in {"returned", "built"}) =>
        \A i \in EmbeddedMedia :
            LET h == ToLowerCase(cSource.content[i].v)
            IN /\ \E j \in DOMAIN attachments :
                     attachments[j].hashHex = h /\ ~attachments[j].isNew
               /\ \E j \in DOMAIN cOut :
                     cOut[j].k = "en-media" /\ cOut[j].v = h

\* ------------------------------------------ properties: reference classes
\* a reference renderImage must leave alone: a URL with a scheme other than
\* file:, or a reference by digest to an attachment that is not known
IsPlainReference(tok) ==
    /\ tok.k = "img"
    /\ \/ tok.s \notin {"", "file", "evernote-resource"}
       \/ /\ tok.s = "evernote-resource"
          /\ ToLowerCase(tok.v) \notin ExistingDigests

IsFailingLocal(tok) ==
    /\ tok.k = "img"
    /\ tok.s \in {"", "file"}
    /\ tok.v # ""
    /\ ~(FileExists(tok.v) /\ FileReadable(tok.v))

SourceMap == BuildExistingResourceMap(NormalizeExistingResources(cSource.resources))

\* the first non-empty of alt, title, file name, mime type and digest
PreferredAlt(media) ==
    LET h == ToLowerCase(media.v)
    IN IF media.a # "" THEN media.a
       ELSE IF media.ti # "" THEN media.ti
       ELSE IF h \in DOMAIN SourceMap /\ SourceMap[h].filename # ""
       THEN SourceMap[h].filename
       ELSE IF h \in DOMAIN SourceMap /\ SourceMap[h].mimeType # ""
       THEN SourceMap[h].mimeType
       ELSE h

\* the type enmlToMarkdown goes by: the element's type attribute, else the
\* mime type of the known attachment, else application/octet-stream
EffectiveType(media) ==
    LET h == ToLowerCase(media.v)
    IN IF media.t # "" THEN media.t
       ELSE IF h \in DOMAIN SourceMap /\ SourceMap[h].mimeType # ""
       THEN SourceMap[h].mimeType
       ELSE "application/octet-stream"

\* the markdown has been produced from the retrieved note
Retrieved == cSource # NoNote /\ cPc # "retrieve"

ResourceReferences ==
    {i \in DOMAIN cMarkdown :
        cMarkdown[i].k \in {"img", "link"} /\ cMarkdown[i].s = "evernote-resource"}

\* C16: the reverse conversion of a note always returns, and its markdown
\* holds exactly one reference per en-media element, known or not, in the
\* element's place and with its digest: an image reference when the
\* element's type is an image type, a link otherwise.
C16_EveryMediaReferenced ==
    /\ cPc = "retrieve" =>
          Len(EnmlToMarkdown(cSource.content,
                             NormalizeExistingResources(cSource.resources)))
             = Len(cSource.content)
    /\ Retrieved =>
          /\ Len(cMarkdown) = Len(cSource.content)
          /\ ResourceReferences =
                {i \in DOMAIN cSource.content : cSource.content[i].k = "en-media"}
          /\ \A i \in ResourceReferences :
                /\ cMarkdown[i].v = ToLowerCase(cSource.content[i].v)
                /\ cMarkdown[i].k =
                      IF IsImageType(EffectiveType(cSource.content[i]))
                      THEN "img" ELSE "link"

\* two elements whose digests are not among the note's resources
C16_Witness ==
    /\ Retrieved
    /\ cSource.resources = <<>>
    /\ cSource.content = <<Media("cc", ""), Media("aa", "image/png")>>
    /\ cMarkdown = <<LnkText("evernote-resource", "cc", "cc"),
                     ImgAlt("evernote-resource", "aa", "aa", "")>>

\* ---------------------------------------------------- properties: connection
\* no request is in progress
Quiet == \A c \in 1..MaxCalls : calls[c].pc = "idle"

\* the latest initialization attempt failed less than INIT_RETRY_DELAY ago
\* and nothing has happened to the connection since
InCooldown ==
    /\ Quiet
    /\ api = 0
    /\ apiInitError # ""
    /\ lastInitAttempt > 0
    /\ now - lastInitAttempt < INIT_RETRY_DELAY

\* this step calls oauth.getAuthenticatedClient for a request of this kind
AttemptBy(kind) ==
    /\ initCount' = initCount + 1
    /\ \E c \in 1..MaxCalls :
          /\ calls'[c].n = initCount'
          /\ calls'[c].kind = kind

\* C17: after an initialization attempt has failed, no new attempt is made
\* until INIT_RETRY_DELAY has passed since that attempt, unless
\* evernote_reconnect is invoked: a step taken during the cooldown calls
\* oauth.getAuthenticatedClient only for evernote_reconnect
C17_NoAttemptInCooldown ==
    [][(InCooldown /\ initCount' # initCount) => AttemptBy("reconnect")]_vars

\* the connection is in the failed state and INIT_RETRY_DELAY has passed
\* since the last attempt
FailedLongAgo ==
    /\ api = 0
    /\ apiInitError # ""
    /\ lastInitAttempt > 0
    /\ now - lastInitAttempt >= INIT_RETRY_DELAY

\* this step is the arrival of a request that takes slot c
Arrives(c) == calls[c].pc = "idle" /\ calls'[c].pc # "idle"

\* this step is the completion of fs.readFile for the attempt of slot c
ReadCompletes(c) == calls[c].pc = "init" /\ calls'[c].pc # "init"

ReconnectEnds(c) ==
    /\ calls[c].kind = "reconnect"
    /\ calls'[c].pc = "idle"

\* this step is the arrival of an evernote_reconnect request in slot c: it
\* discards the connection state and calls oauth.getAuthenticatedClient
ReconnectStarts(c) ==
    (Arrives(c) /\ calls'[c].kind = "reconnect")
        => /\ api' = 0
           /\ apiInitError' = ""
           /\ lastInitAttempt' = now
           /\ initCount' = initCount + 1
           /\ calls'[c] = [kind |-> "reconnect", pc |-> "init",
                           n |-> initCount', retry |-> FALSE]

\* C19: evernote_reconnect always discards the connection state and makes a
\* fresh attempt at once, whatever the cooldown and the current api; when
\* the attempt succeeds api is the new instance, and when it fails api is
\* null and apiInitError is set
C19_ReconnectIsFresh ==
    [][\A c \in 1..MaxCalls :
         /\ ReconnectStarts(c)
         /\ ReconnectEnds(c)
              => \/ api' = calls[c].n /\ apiInitError' = ""
                 \/ api' = 0 /\ apiInitError' # ""]_vars

\* the stored token file carries an expires timestamp in the past
ExpiredFile ==
    /\ tokenFile.token
    /\ tokenFile.expires > 0
    /\ tokenFile.expires < now

\* C20: when the token file carries an expires timestamp in the past, the
\* next getAccessToken detects the expiry and removes the file before it
\* rejects: the step that completes the file read of a pending attempt goes
\* on to revokeToken (the fs.unlink that removes the file) and does not
\* connect
C20_ExpiredTokenRemoved ==
    [][\A c \in 1..MaxCalls :
         (ExpiredFile /\ calls[c].pc \in {"init", "recover"}
            /\ calls'[c] # calls[c])
            => /\ calls'[c].pc \in {"init-unlink", "recover-unlink"}
               /\ api' = api]_vars

\* ------------------------------------------------ properties: token sources
\* the token the file holds: the token field, or the legacy accessToken
\* field when there is no token field; "" when it holds none
FileToken(file) ==
    IF file.kind # "json" THEN ""
    ELSE IF file.token # "null" THEN file.token
    ELSE IF file.accessToken # "null" THEN file.accessToken
    ELSE ""

\* the file holds a token that has not expired
FileAvailable(file, t) ==
    /\ FileToken(file) # ""
    /\ file.expires = 0 \/ file.expires > t

UpdateNoteBounded ==
    /\ uCalls <= 4
    /\ Len(uDelays) <= 3
    /\ \A k \in DOMAIN uDelays :
          uDelays[k] = CASE k = 1 -> 2000 [] k = 2 -> 4000 [] OTHER -> 8000
    /\ uPc = "wait" => uLastCode = 19 /\ uCalls = Len(uDelays)
    /\ uError.from = "updateNote" =>
          /\ uCalls = Len(uDelays) + 1
          /\ uError.errorCode = uLastCode
          /\ uError.retriesAttempted = Len(uDelays)
          /\ uError.errorCode = 19 => uCalls = 4

\* C22: EvernoteAPI.updateNote terminates after at most 4 calls of
\* noteStore.updateNote; it retries only after a failure with errorCode 19,
\* waiting 2000, 4000 and 8000 ms; any other failure, or the fourth failure
\* with errorCode 19, is thrown with the original errorCode and with
\* retriesAttempted
C22_UpdateTerminates == []UpdateNoteBounded /\ <>(uPc = "done")

\* the fourth failure with errorCode 19 has been thrown
C22_Witness ==
    /\ uError = [errorCode |-> 19, retriesAttempted |-> 3, from |-> "updateNote"]
    /\ uCalls = 4
    /\ uDelays = <<2000, 4000, 8000>>

\* C23: in evernote_update_note the original note is deleted only if the
\* update (noteStore.updateNote) failed with errorCode 19, forceUpdate is
\* true and the replacement note was created before; if creating the
\* replacement fails, deleteNote is never called and the original update
\* error is reported; with forceUpdate false neither createNote nor
\* deleteNote is ever called
C23_DeleteOnlyAfterReplace ==
    /\ uDeleteCalls > 0 =>
          /\ uError.from = "updateNote"
          /\ uError.errorCode = 19
          /\ uArgs.forceUpdate
          /\ uCreated
    /\ (uForceFailed /\ ~uCreated) =>
          /\ uDeleteCalls = 0
          /\ uResult = "error"
          /\ uError.errorCode = 19
    /\ ~uArgs.forceUpdate =>
          /\ uPc \notin {"reget", "create", "delete"}
          /\ ~uCreated
          /\ uDeleteCalls = 0

\* ---------------------------------------- properties: polling configuration
\* C24: the polling interval is never below MIN_POLL_INTERVAL (15 minutes),
\* whatever EVERNOTE_POLL_INTERVAL holds (unset, zero, negative or not a
\* number), and it is one hour when the variable is unset
C24_IntervalAtLeastMinimum ==
    cfgPc = "loaded" =>
        /\ ~POLL_INTERVAL.nan
        /\ POLL_INTERVAL.n >= 15 * 60 * 1000
        /\ ~pollEnv.set => POLL_INTERVAL.n = 60 * 60 * 1000

\* ------------------------------------------ properties: first occurrence
\* C25: with replaceAll false and a match, the markdown after the step is
\* the markdown before it with the first occurrence of find replaced by the
\* replace string as written, also when replace contains $&, $1 or $$: what
\* replaceAll would make of it if only the first occurrence existed
C25_FirstOccurrenceLiteral ==
    \A k \in DOMAIN changes :
        (replacements[k].replaceAll = "false" /\ changes[k].replaced > 0) =>
            trace[k + 1] =
                ReplaceAt(trace[k], 1,
                          {SetMin(LiteralStarts(trace[k], replacements[k].find, 1))},
                          replacements[k].find, replacements[k].replace)

\* ------------------------------------------------ properties: replaced
\* the substitutions one pass of the loop makes in md: split/join puts
\* replace between the pieces, String.prototype.replace substitutes once
SubstitutionsApplied(md, r) ==
    IF RegexMatchCount(md, r.find) = 0 THEN 0
    ELSE IF ReplaceAllFlag(r)
    THEN (IF Split(md, r.find) = <<>> THEN 0 ELSE Len(Split(md, r.find)) - 1)
    ELSE 1

\* C26: at every step the reported replaced is the number of substitutions
\* made in the markdown of that step and is at most occurrences, also for
\* an empty find; a step that reports replaced > 0 has changed the markdown
\* unless find equals replace
C26_ReplacedIsApplied ==
    \A k \in DOMAIN changes :
        /\ changes[k].replaced = SubstitutionsApplied(trace[k], replacements[k])
        /\ changes[k].replaced <= changes[k].occurrences
        /\ (changes[k].replaced > 0
               /\ replacements[k].find # replacements[k].replace) =>
              trace[k + 1] # trace[k]

\* --------------------------------------- properties: one initialization
\* request c awaits the getAuthenticatedClient that its ensureAPI() started
\* because no instance existed
Initializing(c) ==
    /\ calls[c].kind \in {"tool", "health"}
    /\ calls[c].pc \in {"init", "init-unlink"}

InitializationsInFlight == {c \in 1..MaxCalls : Initializing(c)}

\* the initialization of request c resolves and c goes on with the instance
\* it created
UsesOwnInstance(c) ==
    /\ Initializing(c)
    /\ calls'[c].pc = "op"

\* C27: of the requests that arrive while no API instance exists, at most
\* one initialization is in flight at a time, and a request never creates
\* an instance next to the one another request already obtained: all of
\* them use the same instance
C27_SingleInitialization ==
    /\ [](Cardinality(InitializationsInFlight) <= 1)
    /\ [][\A c \in 1..MaxCalls :
             UsesOwnInstance(c) => (api = 0 \/ api' = api)]_vars

\* ---------------------------------------------------- properties: polling
\* a poll ends in the catch block of checkForChanges and is the fifth in a
\* row to do so
FifthFailure ==
    /\ failStreak' > failStreak
    /\ failStreak' >= 5

\* C28: when five polls in a row have failed (ensureAPI or getSyncState
\* threw in each), polling is stopped: no interval timer is left and
\* getPollingStatus().running is false
C28_StopsAfterFiveFailures ==
    [][FifthFailure => (timers' = {} /\ ~Running')]_vars

\* at most one interval timer is active, it is the one pollInterval holds,
\* and getPollingStatus().running tells whether there is one
OneTimer ==
    /\ Cardinality(timers) <= 1
    /\ Running <=> timers # {}
    /\ Running => timers = {pollInterval}

\* startPolling() is called while a timer is held
StartWhileRunning ==
    /\ Running
    /\ StartPollingTool \/ AutoStartPolling

\* C29: whatever sequence of evernote_start_polling, evernote_stop_polling,
\* auto-start and stops after errors has run, at most one interval timer is
\* active and running is true exactly when there is one; startPolling while
\* running creates no timer and starts no poll, and stopPolling leaves no
\* timer
C29_AtMostOneTimer ==
    /\ []OneTimer
    /\ [][StartWhileRunning => UNCHANGED <<timers, timersCreated, polls,
                                           lastPollTime>>]_vars
    /\ [][StopPollingTool => (timers' = {} /\ ~Running')]_vars

\* startPolling was called while polling ran, and later five overlapping
\* polls failed and stopped it
C29_Witness ==
    /\ alreadyRunning
    /\ timersCreated = 1
    /\ pollErrorCount >= 5
    /\ timers = {}
    /\ ~Running

\* a poll stores a count as lastUpdateCount
StoresCount == lastUpdateCount' # lastUpdateCount

\* C30: no change is reported twice, whatever the interleaving of
\* timer-driven polls and evernote_poll_now calls: every update sequence
\* number is turned into notifications by at most one poll, the poll that
\* finds lastUpdateCount null only stores the count and reports nothing, and
\* lastUpdateCount never decreases
C30_NoChangeReportedTwice ==
    /\ [](\A u \in Counts : timesReported[u] <= 1)
    /\ [][(lastUpdateCount = -1 /\ StoresCount) =>
             timesReported' = timesReported]_vars
    /\ [][StoresCount => lastUpdateCount' > lastUpdateCount]_vars
====
